---- MODULE Spec2Model ----
(***************************************************************************)
(* Model of the mesh-input preparation scripts:                            *)
(*   - find_r and the two grid builders of generate_microclimate_inputs.py *)
(*   - split_stl_by_facet of split_stl_by_facet.py                         *)
(*   - parse_stl of parse_stl.py and parse_stl_solid_counts of             *)
(*     parse_split_stl_summary.py                                          *)
(*   - generate_grid_info of generate_microclimate_inputs.py               *)
(*                                                                         *)
(* Python floats are modelled by exact rationals over arbitrary-size       *)
(* integers; the arithmetic of generate_grid_info rounds every result to   *)
(* the nearest double, the arithmetic of find_r and of the builders does   *)
(* not model rounding error.  The integers are sequences                   *)
(* of base-10000 limbs because the solver's thresholds (1e-10, 1e-6, 1e-5) *)
(* and their products do not fit a machine word.  Text lines are strings   *)
(* whose characters are read one by one (SubSeq(s, k, k)), so that strip,  *)
(* startswith, split and float are computed character by character.        *)
(***************************************************************************)
EXTENDS Integers, Sequences, FiniteSets, TLC

(***************************************************************************)
(* Arbitrary-size naturals: little-endian sequences of limbs, no leading   *)
(* (most significant) zero limb, zero is << >>.                            *)
(***************************************************************************)
LimbBase == 10000

RECURSIVE MagNorm(_)
MagNorm(a) ==
  IF a = << >> THEN << >>
  ELSE IF a[Len(a)] = 0 THEN MagNorm(SubSeq(a, 1, Len(a) - 1))
  ELSE a

RECURSIVE MagAddC(_, _, _)
MagAddC(a, b, c) ==
  IF a = << >> /\ b = << >> THEN (IF c = 0 THEN << >> ELSE <<c>>)
  ELSE LET x  == (IF a = << >> THEN 0 ELSE Head(a))
                 + (IF b = << >> THEN 0 ELSE Head(b)) + c
           ta == IF a = << >> THEN << >> ELSE Tail(a)
           tb == IF b = << >> THEN << >> ELSE Tail(b)
       IN  <<x % LimbBase>> \o MagAddC(ta, tb, x \div LimbBase)

MagAdd(a, b) == MagAddC(a, b, 0)

\* a - b for a >= b, with borrow c
RECURSIVE MagSubC(_, _, _)
MagSubC(a, b, c) ==
  IF a = << >> THEN << >>
  ELSE LET x  == Head(a) - (IF b = << >> THEN 0 ELSE Head(b)) - c
           tb == IF b = << >> THEN << >> ELSE Tail(b)
       IN  IF x < 0 THEN <<x + LimbBase>> \o MagSubC(Tail(a), tb, 1)
           ELSE <<x>> \o MagSubC(Tail(a), tb, 0)

MagSub(a, b) == MagNorm(MagSubC(a, b, 0))

\* -1, 0, 1 as a < b, a = b, a > b
RECURSIVE MagCmpFrom(_, _, _)
MagCmpFrom(a, b, k) ==
  IF k = 0 THEN 0
  ELSE IF a[k] < b[k] THEN -1
  ELSE IF a[k] > b[k] THEN 1
  ELSE MagCmpFrom(a, b, k - 1)

MagCmp(a, b) ==
  IF Len(a) < Len(b) THEN -1
  ELSE IF Len(a) > Len(b) THEN 1
  ELSE MagCmpFrom(a, b, Len(a))

RECURSIVE MagMulLimb(_, _, _)
MagMulLimb(a, k, c) ==
  IF a = << >> THEN (IF c = 0 THEN << >> ELSE <<c>>)
  ELSE LET x == Head(a) * k + c
       IN  <<x % LimbBase>> \o MagMulLimb(Tail(a), k, x \div LimbBase)

RECURSIVE MagMul(_, _)
MagMul(a, b) ==
  IF a = << >> \/ b = << >> THEN << >>
  ELSE LET rest == MagMul(a, Tail(b))
           shifted == IF rest = << >> THEN << >> ELSE <<0>> \o rest
       IN  MagAdd(MagMulLimb(a, Head(b), 0), shifted)

RECURSIVE MagOfNat(_)
MagOfNat(n) ==
  IF n = 0 THEN << >> ELSE <<n % LimbBase>> \o MagOfNat(n \div LimbBase)

MagOne == <<1>>

RECURSIVE MagPow10(_)
MagPow10(k) == IF k = 0 THEN MagOne ELSE MagMulLimb(MagPow10(k - 1), 10, 0)

\* m * LimbBase^k
MagShift(m, k) == IF m = << >> THEN m ELSE [j \in 1..k |-> 0] \o m

(***************************************************************************)
(* Exact rationals: [neg, num, den] with num, den naturals as above,       *)
(* den # 0, and neg = FALSE when num is zero.  They are not reduced to     *)
(* lowest terms; equality of values is RatEq.                              *)
(***************************************************************************)
Rat(neg, num, den) == [neg |-> neg /\ num # << >>, num |-> num, den |-> den]

RatOfInt(n) == IF n < 0 THEN Rat(TRUE, MagOfNat(-n), MagOne)
               ELSE Rat(FALSE, MagOfNat(n), MagOne)

\* the decimal m * 10^(-k), m an integer
RatDec(m, k) == IF m < 0 THEN Rat(TRUE, MagOfNat(-m), MagPow10(k))
                ELSE Rat(FALSE, MagOfNat(m), MagPow10(k))

RatNeg(x) == Rat(~x.neg, x.num, x.den)

RatAbs(x) == Rat(FALSE, x.num, x.den)

RatIsZero(x) == x.num = << >>

\* (+/-) a/d + (+/-) b/d
SignedSum(xneg, a0, yneg, b0, d) ==
  LET a == a0
      b == b0
  IN  IF xneg = yneg THEN Rat(xneg, MagAdd(a, b), d)
      ELSE IF MagCmp(a, b) >= 0 THEN Rat(xneg, MagSub(a, b), d)
      ELSE Rat(yneg, MagSub(b, a), d)

RatAdd(x, y) ==
  SignedSum(x.neg, MagMul(x.num, y.den), y.neg, MagMul(y.num, x.den),
            MagMul(x.den, y.den))

RatSub(x, y) == RatAdd(x, RatNeg(y))

RatMul(x, y) == Rat(x.neg # y.neg, MagMul(x.num, y.num), MagMul(x.den, y.den))

\* x / y for y # 0
RatDiv(x, y) == Rat(x.neg # y.neg, MagMul(x.num, y.den), MagMul(x.den, y.num))

\* -1, 0, 1 as x < y, x = y, x > y
SignedCmp(xneg, a, yneg, b) ==
  IF xneg /\ ~yneg THEN -1
  ELSE IF ~xneg /\ yneg THEN 1
  ELSE IF xneg THEN MagCmp(b, a)
  ELSE MagCmp(a, b)

RatCmp(x, y) ==
  SignedCmp(x.neg, MagMul(x.num, y.den), y.neg, MagMul(y.num, x.den))

RatLt(x, y) == RatCmp(x, y) < 0
RatLe(x, y) == RatCmp(x, y) <= 0
RatEq(x, y) == RatCmp(x, y) = 0

RECURSIVE RatPowNat(_, _)
RatPowNat(x, n) == IF n = 0 THEN RatOfInt(1) ELSE RatMul(x, RatPowNat(x, n - 1))

\* x ** n for an integer n (x # 0 when n < 0)
RatPow(x, n) == IF n >= 0 THEN RatPowNat(x, n)
                ELSE RatDiv(RatOfInt(1), RatPowNat(x, -n))

(***************************************************************************)
(* Rounding to the nearest IEEE-754 double (ties to even), for values in   *)
(* the range of normal doubles: the arithmetic of generate_grid_info.      *)
(***************************************************************************)
RECURSIVE MagPow2(_)
MagPow2(k) ==
  IF k = 0 THEN MagOne
  ELSE IF k >= 12 THEN MagMulLimb(MagPow2(k - 12), 4096, 0)
  ELSE MagMulLimb(MagPow2(k - 1), 2, 0)

Two52 == MagPow2(52)
Two53 == MagPow2(53)

\* the largest d in lo..hi with d*b <= a, given lo*b <= a
RECURSIVE QuotLimb(_, _, _, _)
QuotLimb(a, b, lo, hi) ==
  IF lo = hi THEN lo
  ELSE LET mid == (lo + hi + 1) \div 2
       IN  IF MagCmp(MagMulLimb(b, mid, 0), a) <= 0
           THEN QuotLimb(a, b, mid, hi)
           ELSE QuotLimb(a, b, lo, mid - 1)

\* the limb d put above the quotient limbs of rest
WithLimb(rest0, d) ==
  LET rest == rest0
  IN  [quot |-> rest.quot \o <<d>>, rem |-> rest.rem]

\* a divided by b # 0, for a < b * LimbBase^(k+1): quotient limbs and rest
RECURSIVE MagDivFrom(_, _, _)
RECURSIVE MagDivStep(_, _, _, _)
MagDivStep(a, b, k, d0) ==
  LET d == d0
  IN  WithLimb(MagDivFrom(IF d = 0 THEN a
                          ELSE MagSub(a, MagMulLimb(MagShift(b, k), d, 0)),
                          b, k - 1),
               d)

MagDivFrom(a, b, k) ==
  IF k < 0 THEN [quot |-> << >>, rem |-> a]
  ELSE MagDivStep(a, b, k, QuotLimb(a, MagShift(b, k), 0, LimbBase - 1))

\* the quotient without its leading zero limbs
Normalized(dv0) ==
  LET dv == dv0
  IN  [quot |-> MagNorm(dv.quot), rem |-> dv.rem]

MagDivMod(a, b) ==
  Normalized(MagDivFrom(a, b, IF Len(a) < Len(b) THEN 0 ELSE Len(a) - Len(b)))

\* p * 2^-e for the least e <= e0 with p * 2^-e >= lo52, given p < lo52
RECURSIVE ScaleUp(_, _, _)
ScaleUp(p, lo52, e) ==
  IF MagCmp(p, lo52) >= 0 THEN [num |-> p, exp |-> e]
  ELSE IF MagCmp(MagMulLimb(p, 2048, 0), lo52) < 0
       THEN ScaleUp(MagMulLimb(p, 4096, 0), lo52, e - 12)
  ELSE ScaleUp(MagMulLimb(p, 2, 0), lo52, e - 1)

\* q * 2^e for the least e >= e0 with p < q * 2^e * 2^53
RECURSIVE ScaleDown(_, _, _)
ScaleDown(p, q, e) ==
  IF MagCmp(p, MagMul(q, Two53)) < 0 THEN [den |-> q, exp |-> e]
  ELSE IF MagCmp(p, MagMulLimb(MagMul(q, Two53), 4096, 0)) >= 0
       THEN ScaleDown(p, MagMulLimb(q, 4096, 0), e + 12)
  ELSE ScaleDown(p, MagMulLimb(q, 2, 0), e + 1)

\* a / d for a limb d that divides a and LimbBase
MagDivExact(a, d) ==
  MagNorm([j \in 1..Len(a) |->
             (a[j] + (IF j < Len(a) THEN (a[j + 1] % d) * LimbBase ELSE 0))
               \div d])

\* m / 2^k with the common factors 2 of m and 2^k taken out
RECURSIVE BinReduced(_, _, _)
BinReduced(neg, m, k) ==
  IF k >= 4 /\ m[1] % 16 = 0 THEN BinReduced(neg, MagDivExact(m, 16), k - 4)
  ELSE IF k >= 1 /\ m[1] % 2 = 0 THEN BinReduced(neg, MagDivExact(m, 2), k - 1)
  ELSE Rat(neg, m, MagPow2(k))

\* dens of the values that need no rounding when the num is at most 2^53
SmallPow2 == { MagPow2(k) : k \in 0..20 }

\* the quotient dv of p by q, rounded to the nearest integer, ties to even
RoundedQuot(dv, q) ==
  LET d    == dv
      half == MagCmp(MagAdd(d.rem, d.rem), q)
  IN  IF half > 0 THEN MagAdd(d.quot, MagOne)
      ELSE IF half < 0 THEN d.quot
      ELSE IF d.quot[1] % 2 = 1 THEN MagAdd(d.quot, MagOne)
      ELSE d.quot

\* (+/-) m * 2^e
BinValue(neg, m, e) ==
  IF e >= 0 THEN Rat(neg, MagMul(MagPow2(e), m), MagOne)
  ELSE BinReduced(neg, m, 0 - e)

\* (+/-) num/den * 2^exp with 2^52 <= num/den < 2^53, rounded
RoundScaled(neg, scaled0) ==
  LET scaled == scaled0
  IN  BinValue(neg,
               RoundedQuot(MagDivMod(scaled.num, scaled.den), scaled.den),
               scaled.exp)

\* x = num/den * 2^exp with 2^52 <= num/den < 2^53; lo52 is x.den * 2^52
Scaled(x, lo52) ==
  IF MagCmp(x.num, lo52) < 0
  THEN [den |-> x.den] @@ ScaleUp(x.num, lo52, 0)
  ELSE [num |-> x.num] @@ ScaleDown(x.num, x.den, 0)

\* the double nearest to the rational x
RoundToDouble(x) ==
  IF RatIsZero(x) THEN x
  ELSE IF x.den \in SmallPow2 /\ MagCmp(x.num, Two53) <= 0 THEN x
  ELSE RoundScaled(x.neg, Scaled(x, MagMul(x.den, Two52)))

\* float + float, float - float, float * float, float / float
DAdd(x, y) == RoundToDouble(RatAdd(x, y))
DSub(x, y) == RoundToDouble(RatSub(x, y))
DMul(x, y) == RoundToDouble(RatMul(x, y))
DDiv(x, y) == RoundToDouble(RatDiv(x, y))

(***************************************************************************)
(* Python float values: a finite number, +/- infinity (val carries the     *)
(* sign) or NaN, with the arithmetic of IEEE 754 on the non-finite ones.   *)
(***************************************************************************)
FFin(x) == [kind |-> "fin", val |-> x]
FInf(neg) == [kind |-> "inf", val |-> Rat(neg, MagOne, MagOne)]
FNaN == [kind |-> "nan", val |-> RatOfInt(0)]

\* sys.float_info.max, 1.7976931348623157e+308
FloatMax == Rat(FALSE, MagShift(<<3157, 4862, 9313, 7976, 1>>, 73), MagOne)

FOfInt(n) == FFin(RatOfInt(n))

FNeg(x) == [kind |-> x.kind, val |-> RatNeg(x.val)]

FAdd(x, y) ==
  IF x.kind = "nan" \/ y.kind = "nan" THEN FNaN
  ELSE IF x.kind = "inf" /\ y.kind = "inf"
       THEN (IF x.val.neg = y.val.neg THEN x ELSE FNaN)
  ELSE IF x.kind = "inf" THEN x
  ELSE IF y.kind = "inf" THEN y
  ELSE FFin(RatAdd(x.val, y.val))

FSub(x, y) == FAdd(x, FNeg(y))

FMul(x, y) ==
  IF x.kind = "nan" \/ y.kind = "nan" THEN FNaN
  ELSE IF x.kind = "fin" /\ y.kind = "fin" THEN FFin(RatMul(x.val, y.val))
  ELSE IF RatIsZero(x.val) \/ RatIsZero(y.val) THEN FNaN
  ELSE FInf(x.val.neg # y.val.neg)

\* x / y; a finite x over a zero y is Python's ZeroDivisionError, which no
\* reachable call of find_r produces (f guards 1 - r, the derivative test
\* guards f'), so it is left out.
FDiv(x, y) ==
  IF x.kind = "nan" \/ y.kind = "nan" THEN FNaN
  ELSE IF x.kind = "inf" /\ y.kind = "inf" THEN FNaN
  ELSE IF x.kind = "inf" THEN FInf(x.val.neg # y.val.neg)
  ELSE IF y.kind = "inf" THEN FFin(RatOfInt(0))
  ELSE FFin(RatDiv(x.val, y.val))

\* the number of decimal digits of a magnitude
MagDigits(m) ==
  IF m = << >> THEN 0
  ELSE LET top == m[Len(m)]
       IN  4 * (Len(m) - 1)
             + (IF top >= 1000 THEN 4 ELSE IF top >= 100 THEN 3
                ELSE IF top >= 10 THEN 2 ELSE 1)

\* the exception x ** n raises for an integer n, "" if it raises none: a
\* finite result beyond the largest float is an OverflowError, 0.0 to a
\* negative power a ZeroDivisionError.  The digit counts settle the size of
\* the result wherever they can.
PowRaises(x, n) ==
  IF x.kind # "fin" \/ n = 0 THEN ""
  ELSE IF RatIsZero(x.val) THEN (IF n < 0 THEN "ZeroDivisionError" ELSE "")
  ELSE LET hi == IF n > 0 THEN x.val.num ELSE x.val.den
           lo == IF n > 0 THEN x.val.den ELSE x.val.num
           k  == IF n > 0 THEN n ELSE -n
       IN  IF k * (MagDigits(hi) - MagDigits(lo) + 1) <= 308 THEN ""
           ELSE IF k * (MagDigits(hi) - MagDigits(lo) - 1) >= 309
                THEN "OverflowError"
           ELSE IF RatLt(FloatMax, RatAbs(RatPow(x.val, n)))
                THEN "OverflowError"
           ELSE ""

\* x ** n where it raises nothing; nan ** 0 and inf ** 0 are 1.0
FPow(x, n) ==
  IF n = 0 THEN FOfInt(1)
  ELSE IF x.kind = "nan" THEN FNaN
  ELSE IF x.kind = "inf"
       THEN (IF n < 0 THEN FFin(RatOfInt(0)) ELSE FInf(x.val.neg /\ n % 2 = 1))
  ELSE FFin(RatPow(x.val, n))

\* abs(x) < c for a finite c; every comparison with NaN is False
FAbsLt(x, c) == x.kind = "fin" /\ RatLt(RatAbs(x.val), c)

\* x > c for a finite c
FGt(x, c) == \/ x.kind = "inf" /\ ~x.val.neg
             \/ x.kind = "fin" /\ RatLt(c, x.val)

(***************************************************************************)
(* find_r (generate_microclimate_inputs.py)                                *)
(***************************************************************************)
DefaultInitialR == RatDec(11, 1)          \* initial_r=1.1
Tolerance == RatDec(1, 6)                 \* tolerance=1e-6
MaxIterations == 1000                     \* max_iterations=1000
SingularEps == RatDec(1, 10)              \* 1e-10, the guard around r = 1
DerivativeEps == RatDec(1, 10)            \* 1e-10, the derivative guard
NudgedR == RatDec(100001, 5)              \* 1.0 + 1e-5

\* abs(fr) < tolerance, without the abs
ConvergedNoAbs(fr) == fr.kind = "fin" /\ RatLt(fr.val, Tolerance)

\* if abs(fr) < tolerance
IsConverged(fr) == FAbsLt(fr, Tolerance)

NearOne(r) == FAbsLt(FSub(r, FOfInt(1)), SingularEps)

\* def f(r)
ResidualF(dx_min, n, delta, r) ==
  IF NearOne(r) THEN FInf(FALSE)
  ELSE FSub(FDiv(FMul(FFin(dx_min), FSub(FOfInt(1), FPow(r, n))),
                 FSub(FOfInt(1), r)),
            FFin(delta))

\* f_prime(r) with its second term left out
DerivativeFirstTerm(dx_min, n, r) ==
  IF NearOne(r) THEN FInf(FALSE)
  ELSE FDiv(FMul(FMul(FNeg(FFin(dx_min)), FOfInt(n)), FPow(r, n - 1)),
            FSub(FOfInt(1), r))

\* def f_prime(r)
DerivativeF(dx_min, n, r) ==
  IF NearOne(r) THEN FInf(FALSE)
  ELSE LET one_minus_r == FSub(FOfInt(1), r)
           term1 == FDiv(FMul(FMul(FNeg(FFin(dx_min)), FOfInt(n)), FPow(r, n - 1)),
                         one_minus_r)
           term2 == FDiv(FMul(FFin(dx_min), FSub(FOfInt(1), FPow(r, n))),
                         FPow(one_minus_r, 2))
       IN  FAdd(term1, term2)

\* r = r - fr / fpr, then the nudge away from 1
\* if abs(r - 1.0) < 1e-10: r = 1.0 + 1e-5
Nudged(r0) ==
  LET r1 == r0
  IN  IF NearOne(r1) THEN FFin(NudgedR) ELSE r1

NewtonUpdate(r, fr, fpr) == Nudged(FSub(r, FDiv(fr, fpr)))

\* one pass of "for i in range(max_iterations)" at r: what it ends in and,
\* for "update", the next r.  r**n in f, and r**(n-1) and (1 - r)**2 in
\* f_prime, are where an arithmetic exception can be raised.
\* the first of two exceptions that is raised
FirstRaised(first0, second) ==
  LET first == first0
  IN  IF first # "" THEN first ELSE second

\* what r**n raises in f(r)
RaisedInF(n, r) == IF NearOne(r) THEN "" ELSE PowRaises(r, n)

\* what r**(n-1) or (1 - r)**2 raises in f_prime(r)
RaisedInFPrime(n, r) ==
  IF NearOne(r) THEN ""
  ELSE FirstRaised(PowRaises(r, n - 1), PowRaises(FSub(FOfInt(1), r), 2))

\* the pass without the guard on the derivative
PassResultUnguarded(r, in_f0, fr0, in_fp0, fpr0) ==
  LET in_f  == in_f0
      fr    == fr0
      in_fp == in_fp0
      fpr   == fpr0
  IN  IF in_f # "" THEN [ends |-> "raise", exc |-> in_f, r |-> r]
      ELSE IF IsConverged(fr) THEN [ends |-> "return", exc |-> "", r |-> r]
      ELSE IF in_fp # "" THEN [ends |-> "raise", exc |-> in_fp, r |-> r]
      ELSE [ends |-> "update", exc |-> "", r |-> NewtonUpdate(r, fr, fpr)]

\* the pass at r, given what f(r) raises (in_f) or returns (fr) and what
\* f_prime(r) raises (in_fp) or returns (fpr)
PassResult(r, in_f0, fr0, in_fp0, fpr0) ==
  LET in_f  == in_f0
      fr    == fr0
      in_fp == in_fp0
      fpr   == fpr0
  IN  IF in_f # "" THEN [ends |-> "raise", exc |-> in_f, r |-> r]
      ELSE IF IsConverged(fr) THEN [ends |-> "return", exc |-> "", r |-> r]
      ELSE IF in_fp # "" THEN [ends |-> "raise", exc |-> in_fp, r |-> r]
      ELSE IF FAbsLt(fpr, DerivativeEps)
           THEN [ends |-> "derivative", exc |-> "", r |-> r]
      ELSE [ends |-> "update", exc |-> "", r |-> NewtonUpdate(r, fr, fpr)]

LoopPass(dx_min, n, delta, r) ==
  PassResult(r, RaisedInF(n, r), ResidualF(dx_min, n, delta, r),
             RaisedInFPrime(n, r), DerivativeF(dx_min, n, r))

(***************************************************************************)
(* generate_grid_with_two_buffers, generate_grid_with_one_buffer           *)
(***************************************************************************)
\* dx = dx_min; for i in range(k): append(dx); dx *= r
RECURSIVE GeometricRun(_, _, _)
GeometricRun(dx, ratio, k) ==
  IF k <= 0 THEN << >>
  ELSE <<dx>> \o GeometricRun(FMul(dx, ratio), ratio, k - 1)

\* grids_temp[::-1]
RECURSIVE Reversed(_)
Reversed(s) == IF s = << >> THEN << >> ELSE Append(Reversed(Tail(s)), Head(s))

\* for i in range(n_urban_cells): grids.append(dx_min)
UrbanRun(dx, k) == [j \in 1..k |-> dx]

\* the pre-urban run appended without the [::-1]
TwoBufferGridNotReversed(ratio, n_buf, dx, n_urban) ==
  GeometricRun(dx, ratio, n_buf)
    \o UrbanRun(dx, n_urban)
    \o GeometricRun(dx, ratio, n_buf)

\* a buffer run appended before the urban run as well
OneBufferGridLeadingRun(ratio, n_buf, dx, n_urban) ==
  Reversed(GeometricRun(dx, ratio, n_buf))
    \o UrbanRun(dx, n_urban)
    \o GeometricRun(dx, ratio, n_buf)

TwoBufferGrid(ratio, n_buf, dx, n_urban) ==
  Reversed(GeometricRun(dx, ratio, n_buf))
    \o UrbanRun(dx, n_urban)
    \o GeometricRun(dx, ratio, n_buf)

OneBufferGrid(ratio, n_buf, dx, n_urban) ==
  UrbanRun(dx, n_urban) \o GeometricRun(dx, ratio, n_buf)

(***************************************************************************)
(* Python str operations on lines of text                                  *)
(***************************************************************************)
Char(s, k) == SubSeq(s, k, k)

\* the whitespace str.strip() and str.split() remove
IsSpace(c) == c \in {" ", "\t", "\n", "\r", "\f"}

RECURSIVE LStrip(_)
LStrip(s) ==
  IF Len(s) = 0 THEN s
  ELSE IF IsSpace(Char(s, 1)) THEN LStrip(SubSeq(s, 2, Len(s)))
  ELSE s

RECURSIVE RStrip(_)
RStrip(s) ==
  IF Len(s) = 0 THEN s
  ELSE IF IsSpace(Char(s, Len(s))) THEN RStrip(SubSeq(s, 1, Len(s) - 1))
  ELSE s

\* s.strip()
Strip(s) == RStrip(LStrip(s))

\* s.startswith(prefix)
StartsWith(s, prefix) ==
  Len(s) >= Len(prefix) /\ SubSeq(s, 1, Len(prefix)) = prefix

\* index of the first " " of s at or after k, 0 if there is none
RECURSIVE FirstSpace(_, _)
FirstSpace(s, k) ==
  IF k > Len(s) THEN 0
  ELSE IF Char(s, k) = " " THEN k
  ELSE FirstSpace(s, k + 1)

\* s.split(" ", 1)
SplitOnce(s) ==
  LET k == FirstSpace(s, 1)
  IN  IF k = 0 THEN <<s>>
      ELSE <<SubSeq(s, 1, k - 1), SubSeq(s, k + 1, Len(s))>>

\* s.split(): the maximal runs of non-whitespace characters
RECURSIVE SplitFields(_, _, _)
SplitFields(s, k, field) ==
  IF k > Len(s) THEN (IF Len(field) = 0 THEN << >> ELSE <<field>>)
  ELSE IF IsSpace(Char(s, k))
       THEN (IF Len(field) = 0 THEN SplitFields(s, k + 1, "")
             ELSE <<field>> \o SplitFields(s, k + 1, ""))
  ELSE SplitFields(s, k + 1, field \o Char(s, k))

Split(s) == SplitFields(s, 1, "")

Digits == <<"0", "1", "2", "3", "4", "5", "6", "7", "8", "9">>

\* str(n) for an integer n >= 0
RECURSIVE IntToStr(_)
IntToStr(n) ==
  IF n < 10 THEN Digits[n + 1]
  ELSE IntToStr(n \div 10) \o Digits[(n % 10) + 1]

\* "".join(ls): what writelines(ls) puts in the file
RECURSIVE Join(_)
Join(ls) == IF ls = << >> THEN "" ELSE Head(ls) \o Join(Tail(ls))

(***************************************************************************)
(* split_stl_by_facet (split_stl_by_facet.py)                              *)
(***************************************************************************)
\* an inner while that also stops at the end of the list
RECURSIVE FacetCloseOrEnd(_, _)
FacetCloseOrEnd(ls, k) ==
  IF k >= Len(ls) THEN Len(ls)
  ELSE IF StartsWith(Strip(ls[k]), "endfacet") THEN k
  ELSE FacetCloseOrEnd(ls, k + 1)

\* 1-based index of the first line at or after 1-based k whose stripped text
\* starts with "endfacet", 0 if the list ends first (lines[i] then raises
\* IndexError)
RECURSIVE FacetCloseIndex(_, _)
FacetCloseIndex(ls, k) ==
  IF k > Len(ls) THEN 0
  ELSE IF StartsWith(Strip(ls[k]), "endfacet") THEN k
  ELSE FacetCloseIndex(ls, k + 1)

\* a counter that starts at 1
SolidOpenLineOneBased(base, index) ==
  "solid " \o base \o "_" \o IntToStr(index + 1) \o "\n"

\* f"solid {current_solid}_{solid_index}\n"
SolidOpenLine(base, index) == "solid " \o base \o "_" \o IntToStr(index) \o "\n"

\* f"endsolid {current_solid}_{solid_index}\n"
SolidCloseLine(base, index) == "endsolid " \o base \o "_" \o IntToStr(index) \o "\n"

\* the stripped text of each line appended instead of lines[i]
RECURSIVE StripAll(_)
StripAll(ls) ==
  IF ls = << >> THEN << >> ELSE <<Strip(Head(ls)) \o "\n">> \o StripAll(Tail(ls))

FacetBlockStripped(ls, first, last, base, index) ==
  <<"solid " \o base \o "_" \o IntToStr(index) \o "\n">>
    \o StripAll(SubSeq(ls, first, last))
    \o <<"endsolid " \o base \o "_" \o IntToStr(index) \o "\n">>

\* facet_lines: the synthesized tags around lines[first..last] (1-based)
FacetBlock(ls, first, last, base, index) ==
  <<SolidOpenLine(base, index)>> \o SubSeq(ls, first, last)
    \o <<SolidCloseLine(base, index)>>

VARIABLES
  s_pc,          \* "loop", "done" or "error": where split_stl_by_facet is
  lines,         \* file.readlines() of the input
  i,             \* index of the line under the cursor (0-based, as in the code)
  current_solid, solid_index, output_lines,
  out_file       \* the file at output_file_path: [exists, data]

splitVars == <<s_pc, lines, i, current_solid, solid_index, output_lines, out_file>>

(***************************************************************************)
(* parse_stl (parse_stl.py), parse_stl_solid_counts                        *)
(* (parse_split_stl_summary.py)                                            *)
(***************************************************************************)
UpperLetters == "ABCDEFGHIJKLMNOPQRSTUVWXYZ"
LowerLetters == "abcdefghijklmnopqrstuvwxyz"

LowerChar(c) ==
  LET ks == {k \in 1..26 : Char(UpperLetters, k) = c}
  IN  IF ks = {} THEN c ELSE Char(LowerLetters, CHOOSE k \in ks : TRUE)

\* s.lower()
RECURSIVE Lower(_)
Lower(s) ==
  IF Len(s) = 0 THEN s
  ELSE LowerChar(Char(s, 1)) \o Lower(SubSeq(s, 2, Len(s)))

\* solid_counts.keys(), in the order the dict literal declares them
SolidTypes == <<"building", "highway", "grass", "ground", "waterway", "tree">>

\* re.match(f"^{solid_type}", solid_name), without re.IGNORECASE
MatchesTypeCaseSensitive(solid_type, solid_name) ==
  StartsWith(solid_name, solid_type)

\* re.match(f"^{solid_type}", solid_name, re.IGNORECASE)
MatchesType(solid_type, solid_name) ==
  StartsWith(Lower(solid_name), Lower(solid_type))

\* the index in SolidTypes at which "for solid_type in solid_counts.keys()"
\* breaks, 0 if the loop ends without a match
RECURSIVE FirstMatchFrom(_, _)
FirstMatchFrom(solid_name, k) ==
  IF k > Len(SolidTypes) THEN 0
  ELSE IF MatchesType(SolidTypes[k], solid_name) THEN k
  ELSE FirstMatchFrom(solid_name, k + 1)

FirstMatch(solid_name) == FirstMatchFrom(solid_name, 1)

\* the digit a character stands for, -1 if it is no digit
DigitValue(c) ==
  LET ks == {k \in 1..10 : Digits[k] = c}
  IN  IF ks = {} THEN -1 ELSE (CHOOSE k \in ks : TRUE) - 1

\* the index after the run of digits of s that starts at k
RECURSIVE SkipDigits(_, _)
SkipDigits(s, k) ==
  IF k <= Len(s) /\ DigitValue(Char(s, k)) >= 0 THEN SkipDigits(s, k + 1) ELSE k

\* the natural number written by the digits s[from..to-1], as a magnitude
RECURSIVE MagOfDigits(_, _, _, _)
MagOfDigits(s, from, to, acc) ==
  IF from >= to THEN acc
  ELSE MagOfDigits(s, from + 1, to,
                   MagAddC(MagMulLimb(acc, 10, 0),
                           MagOfNat(DigitValue(Char(s, from))), 0))

\* the same as a machine integer (exponents)
RECURSIVE NatOfDigits(_, _, _, _)
NatOfDigits(s, from, to, acc) ==
  IF from >= to THEN acc
  ELSE NatOfDigits(s, from + 1, to, acc * 10 + DigitValue(Char(s, from)))

\* float(token): [ok, val]; ok = FALSE is the ValueError.  The grammar is
\* [sign] (inf | infinity | nan | digits [. digits] [e [sign] digits]), the
\* letters in either case; digit-group underscores are not modelled.
ParseFloat(token) ==
  LET t      == Strip(token)
      signed == Len(t) > 0 /\ Char(t, 1) \in {"+", "-"}
      neg    == Len(t) > 0 /\ Char(t, 1) = "-"
      start  == IF signed THEN 2 ELSE 1
      body   == Lower(SubSeq(t, start, Len(t)))
      i_end  == SkipDigits(t, start)
      dot    == i_end <= Len(t) /\ Char(t, i_end) = "."
      f_beg  == IF dot THEN i_end + 1 ELSE i_end
      f_end  == SkipDigits(t, f_beg)
      n_dig  == (i_end - start) + (f_end - f_beg)
      has_e  == f_end <= Len(t) /\ Char(t, f_end) \in {"e", "E"}
      e_sgn  == has_e /\ f_end + 1 <= Len(t) /\ Char(t, f_end + 1) \in {"+", "-"}
      e_neg  == e_sgn /\ Char(t, f_end + 1) = "-"
      e_beg  == IF ~has_e THEN f_end ELSE IF e_sgn THEN f_end + 2 ELSE f_end + 1
      e_end  == IF has_e THEN SkipDigits(t, e_beg) ELSE f_end
      expo   == NatOfDigits(t, e_beg, e_end, 0)
      mant   == MagOfDigits(t, f_beg, f_end, MagOfDigits(t, start, i_end, << >>))
      scale  == MagPow10(f_end - f_beg)
      value  == IF e_neg THEN Rat(neg, mant, MagMul(scale, MagPow10(expo)))
                ELSE Rat(neg, MagMul(mant, MagPow10(expo)), scale)
  IN  IF body \in {"inf", "infinity"} THEN [ok |-> TRUE, val |-> FInf(neg)]
      ELSE IF body = "nan" THEN [ok |-> TRUE, val |-> FNaN]
      ELSE IF n_dig >= 1 /\ (has_e => e_end > e_beg) /\ e_end = Len(t) + 1
           THEN [ok |-> TRUE, val |-> FFin(value)]
      ELSE [ok |-> FALSE, val |-> FNaN]

\* x < y on floats; every comparison with NaN is False
FLt(x, y) ==
  IF x.kind = "nan" \/ y.kind = "nan" THEN FALSE
  ELSE IF x.kind = "fin" /\ y.kind = "fin" THEN RatLt(x.val, y.val)
  ELSE IF x.kind = "inf" /\ y.kind = "inf" THEN x.val.neg /\ ~y.val.neg
  ELSE IF x.kind = "inf" THEN x.val.neg
  ELSE ~y.val.neg

\* min(a, b) and max(a, b) of Python: the first argument unless the second
\* is strictly smaller (larger)
PyMin(a, b) == IF FLt(b, a) THEN b ELSE a
PyMax(a, b) == IF FLt(a, b) THEN b ELSE a

VARIABLES
  p_pc,          \* "loop", "returned" or "error": where the parser is
  p_fn,          \* "parse_stl" or "parse_stl_solid_counts"
  p_lines,       \* the lines of the file at file_path
  p_pos,         \* how many lines "for line in file" has consumed
  min_coords, max_coords, solid_counts, solid_names

parseVars == <<p_pc, p_fn, p_lines, p_pos, min_coords, max_coords,
               solid_counts, solid_names>>

VARIABLES
  g_pc,          \* "find_r", "build", "returned", "raised": where the call is
  g_mode,        \* "solve" (find_r alone), "two" or "one" (the grid builders)
  dx_min, buffer_grids, buffer_length, n_urban_cells,
  initial_r,     \* find_r's initial guess
  r,             \* find_r's current iterate
  iter,          \* find_r's loop index i
  error,         \* "" or the message of the ValueError raised
  grids          \* the width sequence a builder returned

gridVars == <<g_pc, g_mode, dx_min, buffer_grids, buffer_length, n_urban_cells,
              initial_r, r, iter, error, grids>>

(***************************************************************************)
(* generate_grid_info (generate_microclimate_inputs.py)                    *)
(***************************************************************************)
VARIABLES
  i_pc,             \* where generate_grid_info is: "normalize", "buffer",
                    \* "reduce", "x_grid", "y_grid", "z_grid", "counts",
                    \* "write", "returned" or "raised"
  microclimate,     \* the configuration the function was called with
  bounds_json,      \* the object in the file at bounds_json_path
  xf_min, xf_max, yf_min, yf_max, zf_min, zf_max, grid_size,
  info_delta,          \* the local delta of generate_grid_info
  info_buffer_grids,   \* the local buffer_grids of generate_grid_info
  nx, ny, nz,
  info_buffer_length,  \* the local buffer_length of generate_grid_info
  x_min, x_max, y_min, y_max, z_min, z_max,
  n_x_grid, n_y_grid, n_z_grid,
  x_grid, y_grid, z_grid,
  info_solid_counts,   \* the local solid_counts of generate_grid_info
  grid_info_file,      \* the file grid_info.txt: [exists, data]
  info_error           \* "" or the exception generate_grid_info ended in

urbanVars == <<xf_min, xf_max, yf_min, yf_max, zf_min, zf_max, grid_size,
               info_delta>>
cellVars == <<nx, ny, nz>>
extendedVars == <<x_min, x_max, y_min, y_max, z_min, z_max,
                  n_x_grid, n_y_grid, n_z_grid>>
axisGridVars == <<x_grid, y_grid, z_grid>>

infoVars == <<i_pc, microclimate, bounds_json, urbanVars, info_buffer_grids,
              cellVars, info_buffer_length, extendedVars, axisGridVars,
              info_solid_counts, grid_info_file, info_error>>

vars == <<gridVars, splitVars, parseVars, infoVars>>

\* split_stl_by_facet is not running
SplitIdle ==
  /\ s_pc = "idle" /\ lines = << >> /\ i = 0 /\ current_solid = ""
  /\ solid_index = 0 /\ output_lines = << >>
  /\ out_file = [exists |-> FALSE, data |-> ""]

\* neither parser is running
ParseIdle ==
  /\ p_pc = "idle" /\ p_fn = "idle" /\ p_lines = << >> /\ p_pos = 0
  /\ min_coords = << >> /\ max_coords = << >>
  /\ solid_counts = << >> /\ solid_names = << >>

\* generate_grid_info is not running
InfoIdle ==
  /\ i_pc = "idle" /\ microclimate = << >> /\ bounds_json = << >>
  /\ xf_min = RatOfInt(0) /\ xf_max = RatOfInt(0)
  /\ yf_min = RatOfInt(0) /\ yf_max = RatOfInt(0)
  /\ zf_min = RatOfInt(0) /\ zf_max = RatOfInt(0)
  /\ grid_size = RatOfInt(0) /\ info_delta = RatOfInt(0)
  /\ info_buffer_grids = 0 /\ nx = 0 /\ ny = 0 /\ nz = 0
  /\ info_buffer_length = RatOfInt(0)
  /\ x_min = RatOfInt(0) /\ x_max = RatOfInt(0)
  /\ y_min = RatOfInt(0) /\ y_max = RatOfInt(0)
  /\ z_min = RatOfInt(0) /\ z_max = RatOfInt(0)
  /\ n_x_grid = 0 /\ n_y_grid = 0 /\ n_z_grid = 0
  /\ x_grid = << >> /\ y_grid = << >> /\ z_grid = << >>
  /\ info_solid_counts = << >>
  /\ grid_info_file = [exists |-> FALSE, data |-> << >>]
  /\ info_error = ""

notGridVars == <<splitVars, parseVars, infoVars>>

MaxUrbanCells == 2

\* (dx_min, n, delta) triples find_r is called with
SolverInputs ==
  { <<RatOfInt(1), 2, RatOfInt(3)>>,                    \* r = 2
    <<RatDec(5, 1), 2, RatOfInt(4)>>,                   \* r = 7
    <<RatOfInt(2), 2, RatOfInt(5)>>,                    \* r = 1.5
    <<RatOfInt(1), 2, RatDec(15, 1)>>,                  \* delta < n*dx_min
    <<RatOfInt(1), 2, RatDec(21000005, 7)>>,            \* |f(1.1)| = 5e-7
    <<RatOfInt(1), 2, RatAdd(RatOfInt(2), RatDec(1, 11))>>,
    <<RatDec(1, 11), 2, RatOfInt(1)>>,
    <<RatOfInt(1), 3, RatDec(331, 2)>>,                 \* r = 1.1 exactly
    <<RatOfInt(1), 2, Rat(FALSE, MagShift(<<1>>, 40), MagOne)>>,  \* 1e160
    <<RatOfInt(1), 1, RatOfInt(1)>>,
    <<RatOfInt(1), 1, RatOfInt(5)>>,
    <<RatOfInt(1), 0, RatOfInt(0)>>,
    <<RatOfInt(1), 0, RatOfInt(5)>> }

InitGrid ==
  /\ g_pc = "find_r"
  /\ g_mode \in {"solve", "two", "one"}
  /\ \E t \in SolverInputs :
       dx_min = t[1] /\ buffer_grids = t[2] /\ buffer_length = t[3]
  /\ n_urban_cells \in (IF g_mode = "solve" THEN {0} ELSE 0..MaxUrbanCells)
  /\ initial_r \in (IF g_mode = "solve" THEN {FFin(DefaultInitialR), FOfInt(1)}
                    ELSE {FFin(DefaultInitialR)})
  /\ r = initial_r
  /\ iter = 0
  /\ error = ""
  /\ grids = << >>
  /\ SplitIdle /\ ParseIdle /\ InfoIdle

\* one pass of "for i in range(max_iterations)" that converges
Converged ==
  /\ g_pc = "find_r" /\ iter < MaxIterations
  /\ LoopPass(dx_min, buffer_grids, buffer_length, r).ends = "return"
  /\ g_pc' = IF g_mode = "solve" THEN "returned" ELSE "build"
  /\ UNCHANGED <<g_mode, dx_min, buffer_grids, buffer_length, n_urban_cells,
                 initial_r, r, iter, error, grids>>
  /\ UNCHANGED notGridVars

\* f(r) or f_prime(r) raises an arithmetic exception, which nothing catches
ArithmeticRaised ==
  /\ g_pc = "find_r" /\ iter < MaxIterations
  /\ \E pass \in {LoopPass(dx_min, buffer_grids, buffer_length, r)} :
       /\ pass.ends = "raise"
       /\ error' = pass.exc
  /\ g_pc' = "raised"
  /\ UNCHANGED <<g_mode, dx_min, buffer_grids, buffer_length, n_urban_cells,
                 initial_r, r, iter, grids>>
  /\ UNCHANGED notGridVars

DerivativeTooSmall ==
  /\ g_pc = "find_r" /\ iter < MaxIterations
  /\ LoopPass(dx_min, buffer_grids, buffer_length, r).ends = "derivative"
  /\ g_pc' = "raised"
  /\ error' = "Derivative too small, iteration may not converge."
  /\ UNCHANGED <<g_mode, dx_min, buffer_grids, buffer_length, n_urban_cells,
                 initial_r, r, iter, grids>>
  /\ UNCHANGED notGridVars

NewtonStep ==
  /\ g_pc = "find_r" /\ iter < MaxIterations
  /\ \E pass \in {LoopPass(dx_min, buffer_grids, buffer_length, r)} :
       /\ pass.ends = "update"
       /\ r' = pass.r
  /\ iter' = iter + 1
  /\ UNCHANGED <<g_pc, g_mode, dx_min, buffer_grids, buffer_length,
                 n_urban_cells, initial_r, error, grids>>
  /\ UNCHANGED notGridVars

FailedToConverge ==
  /\ g_pc = "find_r" /\ iter = MaxIterations
  /\ g_pc' = "raised"
  /\ error' = "Failed to converge within the maximum number of iterations."
  /\ UNCHANGED <<g_mode, dx_min, buffer_grids, buffer_length, n_urban_cells,
                 initial_r, r, iter, grids>>
  /\ UNCHANGED notGridVars

\* the body of generate_grid_with_two_buffers after find_r returned
BuildTwoBuffers ==
  /\ g_pc = "build" /\ g_mode = "two"
  /\ grids' = TwoBufferGrid(r, buffer_grids, FFin(dx_min), n_urban_cells)
  /\ g_pc' = "returned"
  /\ UNCHANGED <<g_mode, dx_min, buffer_grids, buffer_length, n_urban_cells,
                 initial_r, r, iter, error>>
  /\ UNCHANGED notGridVars

\* the body of generate_grid_with_one_buffer after find_r returned
BuildOneBuffer ==
  /\ g_pc = "build" /\ g_mode = "one"
  /\ grids' = OneBufferGrid(r, buffer_grids, FFin(dx_min), n_urban_cells)
  /\ g_pc' = "returned"
  /\ UNCHANGED <<g_mode, dx_min, buffer_grids, buffer_length, n_urban_cells,
                 initial_r, r, iter, error>>
  /\ UNCHANGED notGridVars

NextGrid ==
  \/ Converged \/ ArithmeticRaised \/ DerivativeTooSmall \/ NewtonStep
  \/ FailedToConverge
  \/ BuildTwoBuffers \/ BuildOneBuffer

SpecGrid == InitGrid /\ [][NextGrid]_vars

(***************************************************************************)
(* Claims about find_r and the grid builders, checked under SpecGrid.      *)
(***************************************************************************)
FLe(x, y) == x.kind = "fin" /\ y.kind = "fin" /\ RatLe(x.val, y.val)

\* dx*(1 - ratio^n)/(1 - ratio) - delta, for a finite ratio # 1
ClosedFormResidual(dx, n, delta, ratio) ==
  RatSub(RatDiv(RatMul(dx, RatSub(RatOfInt(1), RatPow(ratio, n))),
                RatSub(RatOfInt(1), ratio)),
         delta)

FindRReturned == g_pc \in {"build", "returned"}

\* dx_min > 0, n >= 2, delta > n*dx_min, default initial guess
ValidSolverCall ==
  /\ RatLt(RatOfInt(0), dx_min)
  /\ buffer_grids >= 2
  /\ RatLt(RatMul(RatOfInt(buffer_grids), dx_min), buffer_length)
  /\ initial_r = FFin(DefaultInitialR)

ReturnedRootOk ==
  /\ r.kind = "fin"
  /\ RatLt(RatOfInt(1), r.val)
  /\ RatLt(RatAbs(ClosedFormResidual(dx_min, buffer_grids, buffer_length, r.val)),
           RatDec(1, 6))

TwoBufferShape ==
  /\ Len(grids) = 2 * buffer_grids + n_urban_cells
  /\ \A j \in 1..(buffer_grids - 1) : FLe(grids[j + 1], grids[j])
  /\ \A j \in 1..n_urban_cells : grids[buffer_grids + j] = FFin(dx_min)
  /\ \A j \in 1..(buffer_grids - 1) :
       FLe(grids[buffer_grids + n_urban_cells + j],
           grids[buffer_grids + n_urban_cells + j + 1])

TwoBuffersReturned == g_mode = "two" /\ g_pc = "returned"

GridIdle ==
  /\ g_pc = "idle" /\ g_mode = "idle" /\ dx_min = RatOfInt(0)
  /\ buffer_grids = 0 /\ buffer_length = RatOfInt(0) /\ n_urban_cells = 0
  /\ initial_r = FOfInt(0) /\ r = FOfInt(0) /\ iter = 0 /\ error = ""
  /\ grids = << >>

notSplitVars == <<gridVars, parseVars, infoVars>>

MaxChunks == 4

FacetA == << "  facet normal 0 0 1\n", "    outer loop\n",
             "      vertex 0 0 0\n", "      vertex 1 0 0\n",
             "      vertex 0 1 0\n", "    endloop\n", "  endfacet\n" >>

FacetB == << "facet normal 1 0 0\n", "vertex 2 2 2\n", "endfacet\n" >>

\* the pieces input files are made of: a named and a nameless solid-open
\* line, a solid-open line with a name of type tree, two whole facets, a facet-open line alone, a vertex line alone, a
\* solid-close line
Chunks == { <<"solid A\n">>, <<"solid\n">>, <<"solid Tree 1\n">>,
            FacetA, FacetB,
            <<"facet normal 0 1 0\n">>, <<"vertex 9 9 9\n">>,
            <<"endsolid A\n">> }

RECURSIVE FilesOf(_)
FilesOf(k) ==
  IF k = 0 THEN { << >> }
  ELSE FilesOf(k - 1) \cup { f \o c : f \in FilesOf(k - 1), c \in Chunks }

\* the same file with no line terminator after its last line
WithoutFinalNewline(f) ==
  IF f = << >> THEN f
  ELSE [f EXCEPT ![Len(f)] = SubSeq(f[Len(f)], 1, Len(f[Len(f)]) - 1)]

InputFiles ==
  FilesOf(MaxChunks) \cup { WithoutFinalNewline(f) : f \in FilesOf(MaxChunks) }

\* what may be at output_file_path before the call
InitialOutFiles == { [exists |-> FALSE, data |-> ""],
                     [exists |-> TRUE, data |-> "solid old_0\n"] }

InitSplit ==
  /\ s_pc = "loop"
  /\ lines \in InputFiles
  /\ i = 0
  /\ current_solid = ""
  /\ solid_index = 0
  /\ output_lines = << >>
  /\ out_file \in InitialOutFiles
  /\ GridIdle /\ ParseIdle /\ InfoIdle

\* line = lines[i].strip()
CurrentLine == Strip(lines[i + 1])

\* if line.startswith("solid"), the split yields a name
SolidOpen ==
  /\ s_pc = "loop" /\ i < Len(lines)
  /\ StartsWith(CurrentLine, "solid")
  /\ Len(SplitOnce(CurrentLine)) >= 2
  /\ current_solid' = SplitOnce(CurrentLine)[2]
  /\ solid_index' = 0
  /\ i' = i + 1
  /\ UNCHANGED <<s_pc, lines, output_lines, out_file>>
  /\ UNCHANGED notSplitVars

\* if line.startswith("solid"), and line.split(" ", 1)[1] raises IndexError
SolidOpenIndexError ==
  /\ s_pc = "loop" /\ i < Len(lines)
  /\ StartsWith(CurrentLine, "solid")
  /\ Len(SplitOnce(CurrentLine)) < 2
  /\ s_pc' = "error"
  /\ UNCHANGED <<lines, i, current_solid, solid_index, output_lines, out_file>>
  /\ UNCHANGED notSplitVars

\* elif line.startswith("facet normal"), and the inner while finds endfacet
FacetOpen ==
  /\ s_pc = "loop" /\ i < Len(lines)
  /\ ~StartsWith(CurrentLine, "solid")
  /\ StartsWith(CurrentLine, "facet normal")
  /\ LET close == FacetCloseIndex(lines, i + 1)
     IN  /\ close # 0
         /\ output_lines' = output_lines
               \o FacetBlock(lines, i + 1, close, current_solid, solid_index)
         /\ i' = close
  /\ solid_index' = solid_index + 1
  /\ UNCHANGED <<s_pc, lines, current_solid, out_file>>
  /\ UNCHANGED notSplitVars

\* elif line.startswith("facet normal"), and the inner while runs off the end
\* of the list: lines[i] raises IndexError
FacetUnterminated ==
  /\ s_pc = "loop" /\ i < Len(lines)
  /\ ~StartsWith(CurrentLine, "solid")
  /\ StartsWith(CurrentLine, "facet normal")
  /\ FacetCloseIndex(lines, i + 1) = 0
  /\ s_pc' = "error"
  /\ UNCHANGED <<lines, i, current_solid, solid_index, output_lines, out_file>>
  /\ UNCHANGED notSplitVars

\* elif line.startswith("endsolid")
SolidClose ==
  /\ s_pc = "loop" /\ i < Len(lines)
  /\ ~StartsWith(CurrentLine, "solid")
  /\ ~StartsWith(CurrentLine, "facet normal")
  /\ StartsWith(CurrentLine, "endsolid")
  /\ i' = i + 1
  /\ UNCHANGED <<s_pc, lines, current_solid, solid_index, output_lines, out_file>>
  /\ UNCHANGED notSplitVars

\* else
OtherLine ==
  /\ s_pc = "loop" /\ i < Len(lines)
  /\ ~StartsWith(CurrentLine, "solid")
  /\ ~StartsWith(CurrentLine, "facet normal")
  /\ ~StartsWith(CurrentLine, "endsolid")
  /\ i' = i + 1
  /\ UNCHANGED <<s_pc, lines, current_solid, solid_index, output_lines, out_file>>
  /\ UNCHANGED notSplitVars

\* with open(output_file_path, 'w') as out_file: out_file.writelines(...)
WriteOutput ==
  /\ s_pc = "loop" /\ i >= Len(lines)
  /\ out_file' = [exists |-> TRUE, data |-> Join(output_lines)]
  /\ s_pc' = "done"
  /\ UNCHANGED <<lines, i, current_solid, solid_index, output_lines>>
  /\ UNCHANGED notSplitVars

NextSplit ==
  \/ SolidOpen \/ SolidOpenIndexError \/ FacetOpen \/ FacetUnterminated
  \/ SolidClose \/ OtherLine \/ WriteOutput

SpecSplit == InitSplit /\ [][NextSplit]_vars
(***************************************************************************)
(* Claims about split_stl_by_facet, checked under SpecSplit.               *)
(***************************************************************************)
IsSolidOpenLine(l) == StartsWith(Strip(l), "solid")
IsSolidCloseLine(l) == StartsWith(Strip(l), "endsolid")
IsFacetOpenLine(l) == StartsWith(Strip(l), "facet normal")
IsFacetCloseLine(l) == StartsWith(Strip(l), "endfacet")
IsVertexLine(l) == StartsWith(Strip(l), "vertex")

\* the lines of a text, each with its terminator, as readlines() gives them
SplitLines(s) ==
  LET ends    == {k \in 1..Len(s) : Char(s, k) = "\n"}
      nth(n)  == CHOOSE k \in ends : Cardinality({j \in ends : j <= k}) = n
      last    == IF ends = {} THEN 0 ELSE nth(Cardinality(ends))
      whole   == [n \in 1..Cardinality(ends) |->
                    SubSeq(s, (IF n = 1 THEN 0 ELSE nth(n - 1)) + 1, nth(n))]
  IN  IF last < Len(s) THEN Append(whole, SubSeq(s, last + 1, Len(s)))
      ELSE whole

\* the lines of the output file
OutLines == SplitLines(out_file.data)

CountLines(ls, Test(_)) == Cardinality({k \in DOMAIN ls : Test(ls[k])})

\* the blocks of a list of written lines: each ends at a solid-close line and
\* starts after the previous one
BlockEnds(ls) == {k \in DOMAIN ls : IsSolidCloseLine(ls[k])}

BlockStart(ls, k) ==
  LET before == {j \in BlockEnds(ls) : j < k}
  IN  IF before = {} THEN 1
      ELSE 1 + CHOOSE j \in before : \A h \in before : h <= j

OneFacetPerBlock(ls) ==
  /\ \A k \in BlockEnds(ls) :
       LET block == SubSeq(ls, BlockStart(ls, k), k)
       IN  /\ IsSolidOpenLine(block[1])
           /\ CountLines(block, IsFacetOpenLine) = 1
           /\ CountLines(block, IsFacetCloseLine) = 1
  /\ (ls # << >> => Len(ls) \in BlockEnds(ls))

\* C4 as stated: when split_stl_by_facet completes, the output holds as many
\* solid blocks as the input has facet-open lines, and every block holds
\* exactly one facet-open and one facet-close line.
C4_OneBlockPerFacet ==
  s_pc = "done" =>
    /\ Cardinality(BlockEnds(output_lines)) = CountLines(lines, IsFacetOpenLine)
    /\ OneFacetPerBlock(output_lines)

\* the first facet-close line at or after line p of the input, 0 if none
FacetEnd(p) ==
  LET closes == {q \in p..Len(lines) : IsFacetCloseLine(lines[q])}
  IN  IF closes = {} THEN 0 ELSE CHOOSE q \in closes : \A h \in closes : q <= h

\* every facet of the input, from its facet-open line to the next facet-close
\* line, is a contiguous run of the lines written
FacetRunsKept ==
  \A p \in DOMAIN lines :
    IsFacetOpenLine(lines[p]) =>
      LET q == FacetEnd(p)
      IN  /\ q # 0
          /\ \E o \in DOMAIN output_lines :
               /\ o + (q - p) <= Len(output_lines)
               /\ SubSeq(output_lines, o, o + (q - p)) = SubSeq(lines, p, q)

VertexLinesKept ==
  SelectSeq(OutLines, IsVertexLine) = SelectSeq(lines, IsVertexLine)

\* every vertex line lies between a facet-open line and the next facet-close
VerticesInsideFacets ==
  \A v \in DOMAIN lines :
    IsVertexLine(lines[v]) =>
      \E p \in 1..v : /\ IsFacetOpenLine(lines[p])
                      /\ FacetEnd(p) >= v

BlockAppended ==
  /\ Len(output_lines') >= Len(output_lines) + 2
  /\ SubSeq(output_lines', 1, Len(output_lines)) = output_lines

C7_UniqueSolidNames ==
  s_pc = "done" =>
    \A a, b \in BlockEnds(output_lines) :
      a # b => Strip(output_lines[BlockStart(output_lines, a)])
                 # Strip(output_lines[BlockStart(output_lines, b)])

\* a facet-open line with no facet-close line after it
HasUnterminatedFacet ==
  \E p \in DOMAIN lines :
    IsFacetOpenLine(lines[p]) /\ FacetEnd(p) = 0

\* C8: on an input with a facet-open line that no facet-close line follows,
\* split_stl_by_facet never completes: the scan either is still inside the
\* list or has ended in an error, so the write after the loop is never
\* reached, and no step creates or modifies the output file.
C8_UnterminatedFacetIsError ==
  /\ [](HasUnterminatedFacet =>
          /\ s_pc \in {"loop", "error"}
          /\ (s_pc = "loop" => i < Len(lines)))
  /\ [][HasUnterminatedFacet => out_file' = out_file]_vars

C8_Witness ==
  /\ HasUnterminatedFacet /\ s_pc = "error"
  /\ output_lines # << >>
  /\ out_file \in InitialOutFiles
(***************************************************************************)
(* parse_stl and parse_stl_solid_counts: one action per line read          *)
(***************************************************************************)
notParseVars == <<gridVars, splitVars, infoVars>>

MaxParseLines == 3

\* the lines the parsed files are made of
ParseLines ==
  { "solid building_01\n", "solid Highway_3\n", "solid tree7\n",
    "solid  GRASSland x\n", "solid\tground 2\n", "solid roof\n", "solid\n",
    "  vertex 1.5 -2 5e-1\n", "vertex 0 3 -1\n", "vertex nan 0 0\n",
    "vertex 1 2\n", "vertex 1 x 2\n", "endsolid\n" }

RECURSIVE LinesUpTo(_)
LinesUpTo(k) ==
  IF k = 0 THEN { << >> }
  ELSE LinesUpTo(k - 1) \cup { f \o <<l>> : f \in LinesUpTo(k - 1), l \in ParseLines }

ZeroCounts == [k \in 1..Len(SolidTypes) |-> 0]
NoNames == [k \in 1..Len(SolidTypes) |-> << >>]

InitParse ==
  /\ p_pc = "loop"
  /\ p_fn \in {"parse_stl", "parse_stl_solid_counts"}
  /\ p_lines \in LinesUpTo(MaxParseLines)
  /\ p_pos = 0
  /\ min_coords = <<FInf(FALSE), FInf(FALSE), FInf(FALSE)>>
  /\ max_coords = <<FInf(TRUE), FInf(TRUE), FInf(TRUE)>>
  /\ solid_counts = ZeroCounts
  /\ solid_names = NoNames
  /\ GridIdle /\ SplitIdle /\ InfoIdle

\* line = line.strip()
ParsedLine == Strip(p_lines[p_pos + 1])

Reading(fn) == p_pc = "loop" /\ p_fn = fn /\ p_pos < Len(p_lines)

\* the counters after classifying solid_name: the first matching type is
\* counted (and the name recorded), then break
Classified(counts, solid_name) ==
  LET k == FirstMatch(solid_name)
  IN  IF k = 0 THEN counts ELSE [counts EXCEPT ![k] = @ + 1]

Recorded(names, solid_name) ==
  LET k == FirstMatch(solid_name)
  IN  IF k = 0 THEN names ELSE [names EXCEPT ![k] = Append(@, solid_name)]

\* parse_stl: if line.startswith("solid"), solid_name = line.split()[1]
ParseSolid ==
  /\ Reading("parse_stl")
  /\ StartsWith(ParsedLine, "solid")
  /\ Len(Split(ParsedLine)) >= 2
  /\ solid_counts' = Classified(solid_counts, Split(ParsedLine)[2])
  /\ solid_names' = Recorded(solid_names, Split(ParsedLine)[2])
  /\ p_pos' = p_pos + 1
  /\ UNCHANGED <<p_pc, p_fn, p_lines, min_coords, max_coords>>
  /\ UNCHANGED notParseVars

\* parse_stl: line.split()[1] raises IndexError
ParseSolidIndexError ==
  /\ Reading("parse_stl")
  /\ StartsWith(ParsedLine, "solid")
  /\ Len(Split(ParsedLine)) < 2
  /\ p_pc' = "error"
  /\ UNCHANGED <<p_fn, p_lines, p_pos, min_coords, max_coords, solid_counts,
                 solid_names>>
  /\ UNCHANGED notParseVars

VertexFields == Split(ParsedLine)

\* the unpacking alone, without float()
VertexUnpacks == Len(VertexFields) = 4

VertexParses ==
  /\ Len(VertexFields) = 4
  /\ \A k \in 2..4 : ParseFloat(VertexFields[k]).ok

\* parse_stl: if line.startswith("vertex"), the three fields update the box
ParseVertex ==
  /\ Reading("parse_stl")
  /\ ~StartsWith(ParsedLine, "solid")
  /\ StartsWith(ParsedLine, "vertex")
  /\ VertexParses
  /\ min_coords' = [a \in 1..3 |->
                      PyMin(min_coords[a], ParseFloat(VertexFields[a + 1]).val)]
  /\ max_coords' = [a \in 1..3 |->
                      PyMax(max_coords[a], ParseFloat(VertexFields[a + 1]).val)]
  /\ p_pos' = p_pos + 1
  /\ UNCHANGED <<p_pc, p_fn, p_lines, solid_counts, solid_names>>
  /\ UNCHANGED notParseVars

\* parse_stl: the unpacking or float() raises ValueError
ParseVertexValueError ==
  /\ Reading("parse_stl")
  /\ ~StartsWith(ParsedLine, "solid")
  /\ StartsWith(ParsedLine, "vertex")
  /\ ~VertexParses
  /\ p_pc' = "error"
  /\ UNCHANGED <<p_fn, p_lines, p_pos, min_coords, max_coords, solid_counts,
                 solid_names>>
  /\ UNCHANGED notParseVars

\* parse_stl: a line that starts with neither keyword
ParseOther ==
  /\ Reading("parse_stl")
  /\ ~StartsWith(ParsedLine, "solid")
  /\ ~StartsWith(ParsedLine, "vertex")
  /\ p_pos' = p_pos + 1
  /\ UNCHANGED <<p_pc, p_fn, p_lines, min_coords, max_coords, solid_counts,
                 solid_names>>
  /\ UNCHANGED notParseVars

\* parse_stl_solid_counts: solid_name = line.split(" ", 1)[1]
CountSolid ==
  /\ Reading("parse_stl_solid_counts")
  /\ StartsWith(ParsedLine, "solid")
  /\ Len(SplitOnce(ParsedLine)) >= 2
  /\ solid_counts' = Classified(solid_counts, SplitOnce(ParsedLine)[2])
  /\ p_pos' = p_pos + 1
  /\ UNCHANGED <<p_pc, p_fn, p_lines, min_coords, max_coords, solid_names>>
  /\ UNCHANGED notParseVars

\* parse_stl_solid_counts: line.split(" ", 1)[1] raises IndexError
CountSolidIndexError ==
  /\ Reading("parse_stl_solid_counts")
  /\ StartsWith(ParsedLine, "solid")
  /\ Len(SplitOnce(ParsedLine)) < 2
  /\ p_pc' = "error"
  /\ UNCHANGED <<p_fn, p_lines, p_pos, min_coords, max_coords, solid_counts,
                 solid_names>>
  /\ UNCHANGED notParseVars

\* parse_stl_solid_counts: any other line
CountOther ==
  /\ Reading("parse_stl_solid_counts")
  /\ ~StartsWith(ParsedLine, "solid")
  /\ p_pos' = p_pos + 1
  /\ UNCHANGED <<p_pc, p_fn, p_lines, min_coords, max_coords, solid_counts,
                 solid_names>>
  /\ UNCHANGED notParseVars

\* the file is exhausted: return
ParseReturn ==
  /\ p_pc = "loop" /\ p_pos >= Len(p_lines)
  /\ p_pc' = "returned"
  /\ UNCHANGED <<p_fn, p_lines, p_pos, min_coords, max_coords, solid_counts,
                 solid_names>>
  /\ UNCHANGED notParseVars

NextParse ==
  \/ ParseSolid \/ ParseSolidIndexError \/ ParseVertex \/ ParseVertexValueError
  \/ ParseOther \/ CountSolid \/ CountSolidIndexError \/ CountOther
  \/ ParseReturn

SpecParse == InitParse /\ [][NextParse]_vars

(***************************************************************************)
(* generate_grid_info: one action per step of the function; the three      *)
(* builder calls run the actions of find_r and of the builders above.      *)
(***************************************************************************)
notInfoVars == <<splitVars, parseVars>>

MaxCellCount == 24
MaxBufferGrids == 3

\* the cell counts the model can tell apart
CellRange == (0 - MaxCellCount)..MaxCellCount

\* nx.is_integer()
IsInteger(x) == \E n \in CellRange : RatEq(x, RatOfInt(n))

\* int(nx) of an integral nx
IntOf(x) == CHOOSE n \in CellRange : RatEq(x, RatOfInt(n))

\* ties go to the odd neighbour
NearestOrOdd(cmp0, n) ==
  LET cmp == cmp0
  IN  cmp < 0 \/ (cmp = 0 /\ n % 2 = 1)

\* round(nx): the nearest integer, a half going to the even neighbour
\* n is nearer than 1/2, or 1/2 away and even; cmp compares 2*|x - n| to 1
NearestOrEven(cmp0, n) ==
  LET cmp == cmp0
  IN  cmp < 0 \/ (cmp = 0 /\ n % 2 = 0)

PyRound(x) ==
  CHOOSE n \in CellRange :
    NearestOrEven(RatCmp(RatMul(RatOfInt(2), RatAbs(RatSub(x, RatOfInt(n)))),
                         RatOfInt(1)),
                  n)

\* xf_max += (round(nx) - nx) * grid_size; nx = round(nx)
RoundedAxis(af_max, gs, exact, rounded0) ==
  LET rounded == rounded0
  IN  [n |-> rounded,
       af_max |-> DAdd(af_max, DMul(DSub(RatOfInt(rounded), exact), gs))]

\* if not nx.is_integer(): ... else: nx = int(nx), for nx = exact0
AdjustedAxis(af_max, gs, exact0) ==
  LET exact == exact0
  IN  IF ~IsInteger(exact) THEN RoundedAxis(af_max, gs, exact, PyRound(exact))
      ELSE [n |-> IntOf(exact), af_max |-> af_max]

\* nx = (xf_max - xf_min) / grid_size and the adjustment of xf_max and nx
NormalizedAxis(af_min, af_max, gs) ==
  AdjustedAxis(af_max, gs, DDiv(DSub(af_max, af_min), gs))

\* the loop test with >= in the place of >
KeepsReducingAtEquality(n, gs, length) ==
  n > 0 /\ RatLe(DSub(length, DMul(RatOfInt(5), gs)), DMul(RatOfInt(n), gs))

\* while buffer_grids > 0 and (buffer_grids * grid_size) > buffer_length - 5.0*grid_size
KeepsReducing(n, gs, length) ==
  n > 0 /\ RatLt(DSub(length, DMul(RatOfInt(5), gs)), DMul(RatOfInt(n), gs))

default_keys == <<"building", "highway", "grass", "ground", "waterway", "tree">>

DefaultKeySet == {default_keys[k] : k \in DOMAIN default_keys}

\* every default key set to 0, present or not
AllDefaulted(counts) ==
  [k \in DOMAIN counts \cup DefaultKeySet |->
     IF k \in DefaultKeySet THEN 0 ELSE counts[k]]

\* for key in default_keys: solid_counts.setdefault(key, 0)
WithDefaults(counts) ==
  [k \in DOMAIN counts \cup DefaultKeySet |->
     IF k \in DOMAIN counts THEN counts[k] ELSE 0]

\* the lines of grid_info.txt: <<key, value>>, or <<text>> for a line
\* without a tab
UrbanSection ==
  << <<"!!!!!!!!!!!Mesh info data (Urban region)!!!!!!!!!!!">>,
     <<"xf_min", xf_min>>, <<"xf_max", xf_max>>,
     <<"yf_min", yf_min>>, <<"yf_max", yf_max>>,
     <<"zf_min", zf_min>>, <<"zf_max", zf_max>>,
     <<"grid_size", grid_size>> >>

\* the buffer section with the configured buffer count as n_grid
BufferSectionConfigured ==
  << <<"!!!!!!!!!!!Mesh info data (Buffer zone)!!!!!!!!!!!">>,
     <<"x_min", x_min>>, <<"x_max", x_max>>,
     <<"y_min", y_min>>, <<"y_max", y_max>>,
     <<"z_min", z_min>>, <<"z_max", z_max>>,
     <<"delta", info_delta>>, <<"n_grid", microclimate.bufferGrids>> >>

BufferSection ==
  << <<"!!!!!!!!!!!Mesh info data (Buffer zone)!!!!!!!!!!!">>,
     <<"x_min", x_min>>, <<"x_max", x_max>>,
     <<"y_min", y_min>>, <<"y_max", y_max>>,
     <<"z_min", z_min>>, <<"z_max", z_max>>,
     <<"delta", info_delta>>, <<"n_grid", info_buffer_grids>> >>

MeshSection ==
  << <<"!!!!!!!!!!!Mesh size!!!!!!!!!!!">>,
     <<"n_x_grid", n_x_grid>>, <<"n_y_grid", n_y_grid>>,
     <<"n_z_grid", n_z_grid>>,
     <<"x_grid", x_grid>>, <<"y_grid", y_grid>>, <<"z_grid", z_grid>> >>

GeometrySection ==
  << <<"">>, <<"!!!!!!!!!!!Geometry data!!!!!!!!!!!">>,
     <<"num_buildings", info_solid_counts["building"]>>,
     <<"num_trees", info_solid_counts["tree"]>>,
     <<"num_grasses", info_solid_counts["grass"]>>,
     <<"num_highways", info_solid_counts["highway"]>>,
     <<"num_waterways", info_solid_counts["waterway"]>>,
     <<"num_ground", info_solid_counts["ground"]>> >>

\* the buffer bounds written ahead of the urban bounds
GridInfoLinesBufferFirst ==
  BufferSection \o UrbanSection \o MeshSection \o GeometrySection

GridInfoLines ==
  UrbanSection \o BufferSection \o MeshSection \o GeometrySection

\* bounds_json_path holds one of these objects
BoundsJsonInputs ==
  { << >>,
    [building |-> 3],
    [tree |-> 5, grass |-> 0, roof |-> 9],
    [building |-> 4, highway |-> 6, grass |-> 2, ground |-> 1,
     waterway |-> 8, tree |-> 7] }

Config(x0, x1, y0, y1, z0, z1, gs, d, b) ==
  [xf_min |-> x0, xf_max |-> x1, yf_min |-> y0, yf_max |-> y1,
   zf_min |-> z0, zf_max |-> z1, gridSize |-> gs, delta |-> d,
   bufferGrids |-> b]

\* m * 2^(-k)
RatBin(m, k) == IF m < 0 THEN Rat(TRUE, MagOfNat(-m), MagPow2(k))
                ELSE Rat(FALSE, MagOfNat(m), MagPow2(k))

\* a family of configurations around an 8 m tall urban box with 1 m cells;
\* every number in it is a double, as are the sums and products
\* generate_grid_info forms of them
FamilyInputs ==
  { Config(x[1], x[2], y[1], y[2], z[1], z[2], RatOfInt(1), d, b) :
      x \in { <<RatOfInt(0), RatOfInt(2)>>, <<RatOfInt(1), RatBin(7, 1)>> },
      y \in { <<RatOfInt(0), RatOfInt(8)>>, <<RatOfInt(0), RatBin(33, 2)>>,
              <<RatOfInt(0), RatBin(15, 1)>>, <<RatOfInt(-2), RatOfInt(8)>> },
      z \in { <<RatOfInt(0), RatOfInt(1)>>, <<RatOfInt(0), RatBin(1, 1)>> },
      d \in { RatOfInt(0), RatBin(11, 4), RatBin(3, 2), RatBin(7, 3) },
      b \in 0..MaxBufferGrids }

\* single configurations, written as in the configuration file
SingleInputs ==
  { \* half-metre cells
    Config(RatOfInt(0), RatDec(125, 2), RatOfInt(0), RatOfInt(10),
           RatOfInt(0), RatOfInt(1), RatDec(5, 1), RatDec(35, 2), 2),
    \* an extent of 10.3 cells and no buffer
    Config(RatOfInt(0), RatDec(103, 1), RatOfInt(0), RatOfInt(10),
           RatOfInt(0), RatOfInt(1), RatOfInt(1), RatOfInt(0), 0),
    \* xf_min 0.2, xf_max 0.7, gridSize 0.5 and no buffer
    Config(RatDec(2, 1), RatDec(7, 1), RatOfInt(0), RatOfInt(10),
           RatOfInt(0), RatOfInt(1), RatDec(5, 1), RatOfInt(0), 0),
    \* a buffer shorter than the tolerance of find_r
    Config(RatOfInt(0), RatOfInt(2), RatOfInt(0), RatOfInt(10),
           RatOfInt(0), RatOfInt(1), RatOfInt(1), RatDec(5, 8), 2),
    \* gridSize 0
    Config(RatOfInt(0), RatOfInt(2), RatOfInt(0), RatOfInt(10),
           RatOfInt(0), RatOfInt(1), RatOfInt(0), RatDec(7, 1), 2),
    \* negative cells and delta = -(1/4 + 2^-37): the root of f is 1 + 2^-34
    Config(RatOfInt(0), RatOfInt(1), RatOfInt(0), RatOfInt(8),
           RatOfInt(0), RatOfInt(1), RatOfInt(-1),
           RatSub(RatBin(-1, 2), RatBin(1, 37)), 2),
    \* xf_max below xf_min, a z extent of a quarter cell, no buffer
    Config(RatOfInt(2), RatOfInt(0), RatOfInt(0), RatOfInt(8),
           RatOfInt(0), RatBin(1, 2), RatOfInt(1), RatOfInt(0), 0),
    \* extents of 11.5, 10.5 and 0.5 cells, no buffer
    Config(RatOfInt(0), RatBin(23, 1), RatOfInt(0), RatBin(21, 1),
           RatOfInt(0), RatBin(1, 1), RatOfInt(1), RatOfInt(0), 0),
    \* xf_min 1.0, xf_max 1.05, gridSize 0.1 and no buffer
    Config(RatOfInt(1), RatDec(105, 2), RatOfInt(0), RatDec(2, 1),
           RatOfInt(0), RatDec(1, 1), RatDec(1, 1), RatOfInt(0), 0),
    \* delta = 1e31 and 12 buffer cells: r ** 12 overflows
    Config(RatOfInt(0), RatOfInt(2), RatOfInt(0), RatOfInt(8),
           RatOfInt(0), RatOfInt(1), RatOfInt(1),
           Rat(FALSE, MagShift(<<1000>>, 7), MagOne), 12) }

StaleInfoFile == [exists |-> TRUE, data |-> << <<"stale">> >>]

\* what may be at grid_info.txt before the call
InitialInfoFiles == { [exists |-> FALSE, data |-> << >>], StaleInfoFile }

\* the calls: <<microclimate, the object at bounds_json_path, grid_info.txt>>
InfoCalls ==
  (FamilyInputs \X BoundsJsonInputs \X InitialInfoFiles)
  \cup (SingleInputs \X {[building |-> 3]} \X {StaleInfoFile})

\* the keys read with float(microclimate[key])
FloatKeys == {"xf_min", "xf_max", "yf_min", "yf_max", "zf_min", "zf_max",
              "gridSize", "delta"}

\* the state after lines 118-126 read the configuration
InitInfo ==
  /\ i_pc = "normalize"
  /\ \E call \in InfoCalls :
       /\ microclimate = call[1]
       /\ bounds_json = call[2]
       /\ grid_info_file = call[3]
  /\ \E floats \in { [key \in FloatKeys |->
                         RoundToDouble(microclimate[key])] } :
       /\ xf_min = floats.xf_min /\ xf_max = floats.xf_max
       /\ yf_min = floats.yf_min /\ yf_max = floats.yf_max
       /\ zf_min = floats.zf_min /\ zf_max = floats.zf_max
       /\ grid_size = floats.gridSize /\ info_delta = floats.delta
  /\ info_buffer_grids = microclimate.bufferGrids
  /\ nx = 0 /\ ny = 0 /\ nz = 0
  /\ info_buffer_length = RatOfInt(0)
  /\ x_min = RatOfInt(0) /\ x_max = RatOfInt(0)
  /\ y_min = RatOfInt(0) /\ y_max = RatOfInt(0)
  /\ z_min = RatOfInt(0) /\ z_max = RatOfInt(0)
  /\ n_x_grid = 0 /\ n_y_grid = 0 /\ n_z_grid = 0
  /\ x_grid = << >> /\ y_grid = << >> /\ z_grid = << >>
  /\ info_solid_counts = << >>
  /\ info_error = ""
  /\ GridIdle /\ SplitIdle /\ ParseIdle

\* nx = (xf_max - xf_min) / grid_size raises for grid_size 0
NormalizeRaises ==
  /\ i_pc = "normalize" /\ RatIsZero(grid_size)
  /\ i_pc' = "raised"
  /\ info_error' = "ZeroDivisionError"
  /\ UNCHANGED <<microclimate, bounds_json, urbanVars, info_buffer_grids,
                 cellVars, info_buffer_length, extendedVars, axisGridVars,
                 info_solid_counts, grid_info_file>>
  /\ UNCHANGED <<gridVars, notInfoVars>>

\* the cell counts and the adjustment of xf_max, yf_max, zf_max
NormalizeAxes ==
  /\ i_pc = "normalize" /\ ~RatIsZero(grid_size)
  /\ \E axes \in { [a \in {"x", "y", "z"} |->
                       NormalizedAxis(
                         IF a = "x" THEN xf_min ELSE IF a = "y" THEN yf_min
                         ELSE zf_min,
                         IF a = "x" THEN xf_max ELSE IF a = "y" THEN yf_max
                         ELSE zf_max,
                         grid_size)] } :
       /\ nx' = axes["x"].n /\ xf_max' = axes["x"].af_max
       /\ ny' = axes["y"].n /\ yf_max' = axes["y"].af_max
       /\ nz' = axes["z"].n /\ zf_max' = axes["z"].af_max
  /\ i_pc' = "buffer"
  /\ UNCHANGED <<microclimate, bounds_json, xf_min, yf_min, zf_min, grid_size,
                 info_delta, info_buffer_grids, info_buffer_length,
                 extendedVars, axisGridVars, info_solid_counts,
                 grid_info_file, info_error>>
  /\ UNCHANGED <<gridVars, notInfoVars>>

\* buffer_length = delta * yf_max
ComputeBufferLength ==
  /\ i_pc = "buffer"
  /\ info_buffer_length' = DMul(info_delta, yf_max)
  /\ i_pc' = "reduce"
  /\ UNCHANGED <<microclimate, bounds_json, urbanVars, info_buffer_grids,
                 cellVars, extendedVars, axisGridVars, info_solid_counts,
                 grid_info_file, info_error>>
  /\ UNCHANGED <<gridVars, notInfoVars>>

\* one pass of the while loop: buffer_grids -= 1
ReduceBufferGrids ==
  /\ i_pc = "reduce"
  /\ KeepsReducing(info_buffer_grids, grid_size, info_buffer_length)
  /\ info_buffer_grids' = info_buffer_grids - 1
  /\ UNCHANGED <<i_pc, microclimate, bounds_json, urbanVars, cellVars,
                 info_buffer_length, extendedVars, axisGridVars,
                 info_solid_counts, grid_info_file, info_error>>
  /\ UNCHANGED <<gridVars, notInfoVars>>

\* the loop is left; the extended bounds and the totals
ExtendBounds ==
  /\ i_pc = "reduce"
  /\ ~KeepsReducing(info_buffer_grids, grid_size, info_buffer_length)
  /\ \E lower \in { [a \in {"x", "z"} |->
                        DSub(IF a = "x" THEN xf_min ELSE zf_min,
                             info_buffer_length)] } :
       x_min' = lower["x"] /\ z_min' = lower["z"]
  /\ \E upper \in { [a \in {"x", "y", "z"} |->
                        DAdd(IF a = "x" THEN xf_max ELSE IF a = "y" THEN yf_max
                             ELSE zf_max,
                             info_buffer_length)] } :
       x_max' = upper["x"] /\ y_max' = upper["y"] /\ z_max' = upper["z"]
  /\ y_min' = yf_min
  /\ n_x_grid' = nx + 2 * info_buffer_grids
  /\ n_y_grid' = ny + info_buffer_grids
  /\ n_z_grid' = nz + 2 * info_buffer_grids
  /\ i_pc' = "x_grid"
  /\ UNCHANGED <<microclimate, bounds_json, urbanVars, info_buffer_grids,
                 cellVars, info_buffer_length, axisGridVars,
                 info_solid_counts, grid_info_file, info_error>>
  /\ UNCHANGED <<gridVars, notInfoVars>>

\* the axes in the order their grids are built
AxisPcs == {"x_grid", "y_grid", "z_grid"}

\* generate_grid_with_two_buffers / generate_grid_with_one_buffer is called
\* with (buffer_grids, grid_size, buffer_length, n) and calls find_r
BuilderCalled ==
  /\ i_pc \in AxisPcs /\ g_pc = "idle"
  /\ g_pc' = "find_r"
  /\ g_mode' = IF i_pc = "y_grid" THEN "one" ELSE "two"
  /\ buffer_grids' = info_buffer_grids
  /\ dx_min' = grid_size
  /\ buffer_length' = info_buffer_length
  /\ n_urban_cells' = (IF i_pc = "x_grid" THEN nx
                       ELSE IF i_pc = "y_grid" THEN ny ELSE nz)
  /\ initial_r' = FFin(DefaultInitialR)
  /\ r' = FFin(DefaultInitialR)
  /\ iter' = 0
  /\ UNCHANGED <<error, grids>>
  /\ UNCHANGED <<infoVars, notInfoVars>>

\* the builder returns its grid, which is bound to x_grid, y_grid or z_grid
BuilderReturned ==
  /\ i_pc \in AxisPcs /\ g_pc = "returned"
  /\ x_grid' = (IF i_pc = "x_grid" THEN grids ELSE x_grid)
  /\ y_grid' = (IF i_pc = "y_grid" THEN grids ELSE y_grid)
  /\ z_grid' = (IF i_pc = "z_grid" THEN grids ELSE z_grid)
  /\ i_pc' = (IF i_pc = "x_grid" THEN "y_grid"
              ELSE IF i_pc = "y_grid" THEN "z_grid" ELSE "counts")
  /\ g_pc' = "idle" /\ g_mode' = "idle" /\ dx_min' = RatOfInt(0)
  /\ buffer_grids' = 0 /\ buffer_length' = RatOfInt(0) /\ n_urban_cells' = 0
  /\ initial_r' = FOfInt(0) /\ r' = FOfInt(0) /\ iter' = 0 /\ grids' = << >>
  /\ UNCHANGED error
  /\ UNCHANGED <<microclimate, bounds_json, urbanVars, info_buffer_grids,
                 cellVars, info_buffer_length, extendedVars,
                 info_solid_counts, grid_info_file, info_error>>
  /\ UNCHANGED notInfoVars

\* the exception of find_r is swallowed and the builder goes on with the
\* initial ratio
BuilderFallsBack ==
  /\ i_pc \in AxisPcs /\ g_pc = "raised"
  /\ g_pc' = "build"
  /\ r' = initial_r
  /\ UNCHANGED <<g_mode, dx_min, buffer_grids, buffer_length, n_urban_cells,
                 initial_r, iter, error, grids>>
  /\ UNCHANGED <<infoVars, notInfoVars>>

\* the exception of find_r leaves the builder and generate_grid_info
BuilderRaised ==
  /\ i_pc \in AxisPcs /\ g_pc = "raised"
  /\ i_pc' = "raised"
  /\ info_error' = error
  /\ UNCHANGED <<microclimate, bounds_json, urbanVars, info_buffer_grids,
                 cellVars, info_buffer_length, extendedVars, axisGridVars,
                 info_solid_counts, grid_info_file>>
  /\ UNCHANGED <<gridVars, notInfoVars>>

\* solid_counts = json.load(f) and the setdefault loop
LoadSolidCounts ==
  /\ i_pc = "counts"
  /\ info_solid_counts' = WithDefaults(bounds_json)
  /\ i_pc' = "write"
  /\ UNCHANGED <<microclimate, bounds_json, urbanVars, info_buffer_grids,
                 cellVars, info_buffer_length, extendedVars, axisGridVars,
                 grid_info_file, info_error>>
  /\ UNCHANGED <<gridVars, notInfoVars>>

\* with open(file_path, "w") as f: ... ; return file_path
WriteGridInfo ==
  /\ i_pc = "write"
  /\ grid_info_file' = [exists |-> TRUE, data |-> GridInfoLines]
  /\ i_pc' = "returned"
  /\ UNCHANGED <<microclimate, bounds_json, urbanVars, info_buffer_grids,
                 cellVars, info_buffer_length, extendedVars, axisGridVars,
                 info_solid_counts, info_error>>
  /\ UNCHANGED <<gridVars, notInfoVars>>

NextInfo ==
  \/ NormalizeRaises \/ NormalizeAxes \/ ComputeBufferLength
  \/ ReduceBufferGrids \/ ExtendBounds
  \/ BuilderCalled
  \/ Converged \/ ArithmeticRaised \/ DerivativeTooSmall \/ NewtonStep
  \/ FailedToConverge
  \/ BuildTwoBuffers \/ BuildOneBuffer
  \/ BuilderReturned \/ BuilderRaised
  \/ LoadSolidCounts \/ WriteGridInfo

SpecInfo == InitInfo /\ [][NextInfo]_vars

(***************************************************************************)
(* Claims about generate_grid_info, checked under SpecInfo.                *)
(***************************************************************************)
\* the loop over buffer_grids is behind generate_grid_info
ReductionDone ==
  \/ i_pc \in AxisPcs \cup {"counts", "write", "returned"}
  \/ i_pc = "raised" /\ g_pc = "raised"

\* k = 0 or k*grid_size <= buffer_length - 5*grid_size
StopsAt(k) ==
  \/ k = 0
  \/ RatLe(RatMul(RatOfInt(k), grid_size),
           RatSub(info_buffer_length, RatMul(RatOfInt(5), grid_size)))

\* C12: the loop that adjusts the buffer count only ever takes one off a
\* positive count, and only while generate_grid_info is at the loop; the
\* count never goes below 0, so a configured count c >= 0 allows at most c
\* passes; once the loop is left the count is the largest k <= c with k = 0
\* or k*grid_size <= buffer_length - 5*grid_size; until then no builder has
\* been called and no axis grid exists.
C12_ReductionLoop ==
  /\ [][ info_buffer_grids' # info_buffer_grids =>
           /\ i_pc = "reduce" /\ i_pc' = "reduce"
           /\ info_buffer_grids > 0
           /\ info_buffer_grids' = info_buffer_grids - 1 ]_vars
  /\ [] ( i_pc # "idle" =>
            /\ info_buffer_grids \in 0..microclimate.bufferGrids
            /\ (i_pc \in {"normalize", "buffer", "reduce"} =>
                  /\ g_pc = "idle"
                  /\ x_grid = << >> /\ y_grid = << >> /\ z_grid = << >>)
            /\ (ReductionDone =>
                  /\ StopsAt(info_buffer_grids)
                  /\ \A k \in (info_buffer_grids + 1)..microclimate.bufferGrids :
                       ~StopsAt(k)) )

C12_Witness ==
  /\ i_pc = "y_grid" /\ x_grid # << >>
  /\ microclimate.bufferGrids = 3 /\ info_buffer_grids = 2

\* the normalization of the three axes is behind generate_grid_info
AxesNormalized ==
  \/ i_pc \in {"buffer", "reduce", "counts", "write", "returned"} \cup AxisPcs
  \/ i_pc = "raised" /\ g_pc = "raised"

\* what C13 says of one axis with the bounds lo and hi0 it was called with,
\* the max bound hi and the cell count n it has now; the quotients are
\* computed as the program computes them
AxisIsNormalized(lo, hi0, hi, n, gs) ==
  LET exact == DDiv(DSub(hi0, lo), gs)
  IN  IF IsInteger(exact)
      THEN n = IntOf(exact) /\ RatEq(hi, hi0)
      ELSE /\ RatLe(RatAbs(RatSub(exact, RatOfInt(n))), RatDec(5, 1))
           /\ RatEq(hi, DAdd(hi0, DMul(DSub(RatOfInt(n), exact), gs)))
           /\ RatEq(DDiv(DSub(hi, lo), gs), RatOfInt(n))

\* C13: once generate_grid_info has normalized its axes, for each axis a:
\* if (af_max - af_min)/grid_size was an integer, na is that integer and
\* af_max is unchanged; if not, na is the nearest integer, af_max was
\* changed by (na - exact)*grid_size and (af_max - af_min)/grid_size now
\* equals na exactly; and find_r is not called before that.
C13_AxesNormalized ==
  /\ i_pc \in {"normalize", "buffer", "reduce"} => g_pc = "idle"
  /\ i_pc = "buffer" =>
       /\ AxisIsNormalized(xf_min, RoundToDouble(microclimate.xf_max),
                           xf_max, nx, grid_size)
       /\ AxisIsNormalized(yf_min, RoundToDouble(microclimate.yf_max),
                           yf_max, ny, grid_size)
       /\ AxisIsNormalized(zf_min, RoundToDouble(microclimate.zf_max),
                           zf_max, nz, grid_size)

\* buffer_length has been computed
BufferLengthKnown ==
  \/ i_pc \in {"reduce", "counts", "write", "returned"} \cup AxisPcs
  \/ i_pc = "raised" /\ g_pc = "raised"

\* C14: the buffer length used by generate_grid_info is delta times the max
\* bound of an axis that is buffered on both sides (x and z are the axes
\* that get a two-buffer grid).
C14_BufferLengthOfTwoSidedAxis ==
  BufferLengthKnown =>
    \/ RatEq(info_buffer_length, DMul(info_delta, xf_max))
    \/ RatEq(info_buffer_length, DMul(info_delta, zf_max))

\* the three width sequences have been built
GridsBuilt == i_pc \in {"counts", "write", "returned"}

\* a bound differs from the urban bound it was derived from
Extended(bound, urban) == ~RatEq(bound, urban)

\* a two-buffer grid holds a run of buffer cells before and after its n urban
\* cells, a one-buffer grid holds one after them only
HasBufferRun(grid, n) == Len(grid) > n

\* C15: the extended bounds are the urban bounds moved outward by
\* buffer_length on the buffered sides only: x and z (two-buffer grids) have
\* min = urban min - buffer_length and max = urban max + buffer_length, y
\* (one-buffer grid) has min = urban min and max = urban max +
\* buffer_length; and an axis is extended on a side if and only if its
\* width sequence contains a buffer run on that side.
C15_ExtendedWhereBuffered ==
  GridsBuilt =>
    /\ RatEq(x_min, DSub(xf_min, info_buffer_length))
    /\ RatEq(x_max, DAdd(xf_max, info_buffer_length))
    /\ RatEq(y_min, yf_min)
    /\ RatEq(y_max, DAdd(yf_max, info_buffer_length))
    /\ RatEq(z_min, DSub(zf_min, info_buffer_length))
    /\ RatEq(z_max, DAdd(zf_max, info_buffer_length))
    /\ Extended(x_min, xf_min) <=> HasBufferRun(x_grid, nx)
    /\ Extended(x_max, xf_max) <=> HasBufferRun(x_grid, nx)
    /\ ~Extended(y_min, yf_min)
    /\ Extended(y_max, yf_max) <=> HasBufferRun(y_grid, ny)
    /\ Extended(z_min, zf_min) <=> HasBufferRun(z_grid, nz)
    /\ Extended(z_max, zf_max) <=> HasBufferRun(z_grid, nz)

\* the lines of a written file that hold a field (a name, a tab, a value)
FieldLines(data) == SelectSeq(data, LAMBDA l : Len(l) = 2)

\* the names of the fields of a written file, in the order of the file
FieldNames(data) == [k \in DOMAIN FieldLines(data) |-> FieldLines(data)[k][1]]

\* the value written for the field called name
FieldValue(data, name) ==
  LET fields == FieldLines(data)
  IN  fields[CHOOSE k \in DOMAIN fields : fields[k][1] = name][2]

\* the field names in the order the mesh reader expects them
ExpectedFieldNames ==
  << "xf_min", "xf_max", "yf_min", "yf_max", "zf_min", "zf_max",
     "grid_size",
     "x_min", "x_max", "y_min", "y_max", "z_min", "z_max",
     "delta", "n_grid",
     "n_x_grid", "n_y_grid", "n_z_grid",
     "x_grid", "y_grid", "z_grid",
     "num_buildings", "num_trees", "num_grasses", "num_highways",
     "num_waterways", "num_ground" >>

\* C16: when generate_grid_info has returned, grid_info.txt holds its fields
\* in exactly this order: six urban bounds, grid_size, six buffer bounds,
\* delta, n_grid, the three totals, the three width sequences (each in
\* traversal order) and last the six solid-type counts; each field once.
C16_FieldOrder ==
  i_pc = "returned" =>
    /\ grid_info_file.exists
    /\ FieldNames(grid_info_file.data) = ExpectedFieldNames
    /\ Cardinality({ FieldNames(grid_info_file.data)[k] :
                       k \in DOMAIN FieldNames(grid_info_file.data) }) = 27
    /\ FieldValue(grid_info_file.data, "x_grid") = x_grid
    /\ FieldValue(grid_info_file.data, "y_grid") = y_grid
    /\ FieldValue(grid_info_file.data, "z_grid") = z_grid

C16_Witness ==
  /\ i_pc = "returned"
  /\ info_buffer_grids = 2
  /\ Len(x_grid) = nx + 4 /\ Len(y_grid) = ny + 2
  /\ grid_info_file.data # StaleInfoFile.data

\* the field of grid_info.txt that holds the count of a taxonomy key
CountField ==
  [building |-> "num_buildings", highway |-> "num_highways",
   grass |-> "num_grasses", ground |-> "num_ground",
   waterway |-> "num_waterways", tree |-> "num_trees"]

\* C17: for each of the six taxonomy keys, the count written by
\* generate_grid_info is the value of the key in the solid-count JSON when it
\* is present there and 0 when it is absent; a present value is never
\* replaced by the default.
C17_CountsDefaultToZero ==
  i_pc = "returned" =>
    \A key \in {"building", "highway", "grass", "ground", "waterway", "tree"} :
      FieldValue(grid_info_file.data, CountField[key]) =
        (IF key \in DOMAIN bounds_json THEN bounds_json[key] ELSE 0)

C17_Witness ==
  /\ i_pc = "returned"
  /\ bounds_json = [tree |-> 5, grass |-> 0, roof |-> 9]
  /\ FieldValue(grid_info_file.data, "num_trees") = 5
  /\ FieldValue(grid_info_file.data, "num_buildings") = 0

\* C18: while a grid builder runs with a buffer cell count of 0 (in
\* particular after the reduction in generate_grid_info reached 0), find_r
\* is not running and has not raised, and the builder returns exactly
\* n_urban_cells widths, all equal to dx_min.
C18_NoSolverForZeroBuffer ==
  (g_mode \in {"two", "one"} /\ buffer_grids = 0) =>
    /\ g_pc \in {"build", "returned"}
    /\ iter = 0
    /\ g_pc = "returned" => grids = UrbanRun(FFin(dx_min), n_urban_cells)

\* find_r has ended in one of its two errors
SolverFailed ==
  /\ g_pc = "raised"
  /\ error \in {"Derivative too small, iteration may not converge.",
                "Failed to converge within the maximum number of iterations."}

\* C19: if find_r fails (iteration budget exhausted or derivative too small)
\* for an axis, generate_grid_info ends in that error: the only step left is
\* the one that raises it, no ratio is substituted, the width sequence of
\* that axis and of the axes after it stay unbuilt, and grid_info.txt is
\* left as it was before the call.
C19_SolverFailureIsFatal ==
  /\ [][ (i_pc # "idle" /\ SolverFailed) =>
           /\ i_pc' = "raised" /\ g_pc' = "raised"
           /\ info_error' = error
           /\ UNCHANGED <<r, grids, x_grid, y_grid, z_grid, grid_info_file>> ]_vars
  /\ [] ( (i_pc # "idle" /\ SolverFailed) =>
            /\ i_pc \in AxisPcs \cup {"raised"}
            /\ grids = << >>
            /\ grid_info_file \in InitialInfoFiles
            /\ i_pc = "x_grid" => x_grid = << >>
            /\ i_pc = "y_grid" => y_grid = << >>
            /\ y_grid # << >> => x_grid # << >>
            /\ z_grid = << >>
            /\ i_pc = "raised" => info_error = error )

C19_Witness ==
  /\ i_pc = "raised"
  /\ info_error = "Failed to converge within the maximum number of iterations."
  /\ iter = MaxIterations
  /\ x_grid = << >>
  /\ grid_info_file = StaleInfoFile

(***************************************************************************)
(* Claims about how find_r ends, checked under SpecGrid.                   *)
(***************************************************************************)
\* C20: every call of find_r ends after at most max_iterations Newton
\* updates in exactly one of three ways: it returns an r with
\* |f(r)| < tolerance, it raises the derivative-too-small error, or it
\* raises the failed-to-converge error after the last iteration; the
\* initial guess is never replaced (no retry) and an update is the only
\* thing that changes r.
C20_ThreeWaysToEnd ==
  /\ [][ g_pc = "find_r" =>
           /\ initial_r' = initial_r
           /\ iter' \in {iter, iter + 1}
           /\ r' # r => iter' = iter + 1 ]_vars
  /\ [] ( g_pc # "idle" =>
            /\ iter <= MaxIterations
            /\ g_pc = "raised" =>
                 \/ error = "Derivative too small, iteration may not converge."
                 \/ /\ error = "Failed to converge within the maximum number of iterations."
                    /\ iter = MaxIterations
            /\ FindRReturned =>
                 /\ r.kind = "fin"
                 /\ RatLt(RatAbs(ClosedFormResidual(dx_min, buffer_grids,
                                                    buffer_length, r.val)),
                          RatDec(1, 6)) )

\* at the current r nothing raises in f or f_prime, the residual is not
\* below the tolerance and |f'(r)| < 1e-10
DerivativeCollapsed ==
  /\ RaisedInF(buffer_grids, r) = ""
  /\ ~FAbsLt(ResidualF(dx_min, buffer_grids, buffer_length, r), RatDec(1, 6))
  /\ RaisedInFPrime(buffer_grids, r) = ""
  /\ FAbsLt(DerivativeF(dx_min, buffer_grids, r), RatDec(1, 10))

\* C21: if at some iteration of find_r the residual is not below the
\* tolerance and |f'(r)| < 1e-10, the step taken raises the
\* derivative-too-small error at once: r is not updated, no iteration is
\* counted, nothing follows the error, and its message differs from the one
\* of the failed-to-converge error.
C21_DerivativeTooSmallIsFatal ==
  /\ [][ (g_pc = "find_r" /\ iter < MaxIterations /\ DerivativeCollapsed) =>
           /\ g_pc' = "raised"
           /\ error' = "Derivative too small, iteration may not converge."
           /\ error' # "Failed to converge within the maximum number of iterations."
           /\ r' = r /\ iter' = iter /\ grids' = grids ]_vars
  /\ [][ g_pc = "raised" => (g_pc' = "raised" /\ r' = r /\ iter' = iter) ]_vars

C21_Witness ==
  /\ g_pc = "raised"
  /\ error = "Derivative too small, iteration may not converge."
  /\ buffer_grids = 2
  /\ DerivativeCollapsed

\* abs(x - 1.0) >= 1e-10 as Python evaluates it: False for a NaN
AwayFromOne(x) ==
  \/ x.kind = "inf"
  \/ /\ x.kind = "fin"
     /\ RatLe(RatDec(1, 10), RatAbs(RatSub(x.val, RatOfInt(1))))

\* C22: while find_r runs, f and f_prime are +infinity at an r within 1e-10
\* of 1 (no division by 1 - r there), and from the second iteration on the
\* current r satisfies |r - 1| >= 1e-10.
C22_NeverNearOne ==
  g_pc = "find_r" =>
    /\ NearOne(r) =>
         /\ ResidualF(dx_min, buffer_grids, buffer_length, r) = FInf(FALSE)
         /\ DerivativeF(dx_min, buffer_grids, r) = FInf(FALSE)
    /\ iter >= 1 => AwayFromOne(r)

\* C23: generate_grid_with_two_buffers solves for the ratio once and uses
\* it for both buffer runs: after find_r has returned, the ratio does not
\* change and the next step returns the grid; the returned sequence is
\* mirror-symmetric (the width at position i equals the width at position
\* len-1-i, counting from 0), and the buffer cells next to the urban core
\* have width dx_min on both sides.
C23_TwoBufferSymmetry ==
  /\ [][ (g_mode = "two" /\ g_pc = "build") =>
           (g_pc' = "returned" /\ r' = r /\ iter' = iter) ]_vars
  /\ [] ( (g_mode = "two" /\ g_pc = "returned") =>
            /\ \A k \in 1..Len(grids) : grids[k] = grids[Len(grids) + 1 - k]
            /\ buffer_grids > 0 =>
                 /\ Len(grids) = 2 * buffer_grids + n_urban_cells
                 /\ grids[buffer_grids] = FFin(dx_min)
                 /\ grids[buffer_grids + n_urban_cells + 1] = FFin(dx_min) )

C23_Witness ==
  /\ g_mode = "two" /\ g_pc = "returned"
  /\ buffer_grids = 2 /\ n_urban_cells = 2
  /\ grids[1] # grids[2]
  /\ grids[1] = grids[6]

\* the urban cells "for i in range(n_urban_cells)" appends: none for a
\* negative count
UrbanCellsBuilt(n) == IF n < 0 THEN 0 ELSE n

\* C24: the n_grid written to grid_info.txt is the buffer count after the
\* reduction (the largest count k <= bufferGrids with k = 0 or
\* k*grid_size <= buffer_length - 5*grid_size), and it is the count the three
\* width sequences and the three written totals were built with; it is
\* below the configured bufferGrids exactly when the count was reduced.
C24_WrittenCountIsUsedCount ==
  i_pc = "returned" =>
    LET n_grid == FieldValue(grid_info_file.data, "n_grid")
    IN  /\ n_grid \in 0..microclimate.bufferGrids
        /\ StopsAt(n_grid)
        /\ \A k \in (n_grid + 1)..microclimate.bufferGrids : ~StopsAt(k)
        /\ n_grid < microclimate.bufferGrids <=>
             ~StopsAt(microclimate.bufferGrids)
        /\ Len(FieldValue(grid_info_file.data, "x_grid")) =
             UrbanCellsBuilt(nx) + 2 * n_grid
        /\ Len(FieldValue(grid_info_file.data, "y_grid")) =
             UrbanCellsBuilt(ny) + n_grid
        /\ Len(FieldValue(grid_info_file.data, "z_grid")) =
             UrbanCellsBuilt(nz) + 2 * n_grid
        /\ FieldValue(grid_info_file.data, "n_x_grid") = nx + 2 * n_grid
        /\ FieldValue(grid_info_file.data, "n_y_grid") = ny + n_grid
        /\ FieldValue(grid_info_file.data, "n_z_grid") = nz + 2 * n_grid

C24_Witness ==
  /\ i_pc = "returned"
  /\ microclimate.bufferGrids = 3
  /\ FieldValue(grid_info_file.data, "n_grid") = 2
  /\ Len(y_grid) = ny + 2

\* C25: in every grid_info.txt that generate_grid_info writes, each written
\* total is the number of widths in the written sequence of its axis.
C25_TotalsMatchSequences ==
  i_pc = "returned" =>
    /\ FieldValue(grid_info_file.data, "n_x_grid")
         = Len(FieldValue(grid_info_file.data, "x_grid"))
    /\ FieldValue(grid_info_file.data, "n_y_grid")
         = Len(FieldValue(grid_info_file.data, "y_grid"))
    /\ FieldValue(grid_info_file.data, "n_z_grid")
         = Len(FieldValue(grid_info_file.data, "z_grid"))

\* the sum of a sequence of finite widths
RECURSIVE WidthSum(_)
WidthSum(widths) ==
  IF widths = << >> THEN RatOfInt(0)
  ELSE RatAdd(WidthSum(Tail(widths)), Head(widths).val)

\* |sum - (hi - lo)| <= eps
Covers(sum0, lo, hi, eps) ==
  LET sum == sum0
  IN  RatLe(RatAbs(RatSub(sum, RatSub(hi, lo))), eps)

\* C26: in every grid_info.txt that generate_grid_info writes, the widths of
\* each axis cover its extended domain: the sum of x_grid is x_max - x_min
\* and the sum of z_grid is z_max - z_min to within 2e-6, and the sum of
\* y_grid is y_max - y_min to within 1e-6.
C26_WidthsCoverDomain ==
  i_pc = "returned" =>
    /\ Covers(WidthSum(FieldValue(grid_info_file.data, "x_grid")),
              FieldValue(grid_info_file.data, "x_min"),
              FieldValue(grid_info_file.data, "x_max"), RatDec(2, 6))
    /\ Covers(WidthSum(FieldValue(grid_info_file.data, "y_grid")),
              FieldValue(grid_info_file.data, "y_min"),
              FieldValue(grid_info_file.data, "y_max"), RatDec(1, 6))
    /\ Covers(WidthSum(FieldValue(grid_info_file.data, "z_grid")),
              FieldValue(grid_info_file.data, "z_min"),
              FieldValue(grid_info_file.data, "z_max"), RatDec(2, 6))

\* |n * grid_size - buffer_length| >= 1e-6 for the arguments find_r was
\* called with
ResidualAtOneCellRun ==
  RatLe(RatDec(1, 6),
        RatAbs(RatSub(RatMul(dx_min, RatOfInt(buffer_grids)), buffer_length)))

\* a builder of generate_grid_info is inside find_r with a count of 0 or 1
\* whose n cells of grid_size miss buffer_length by 1e-6 or more
ShortCountInFindR ==
  /\ i_pc \in AxisPcs /\ g_pc = "find_r"
  /\ buffer_grids = info_buffer_grids
  /\ buffer_grids \in {0, 1}
  /\ ResidualAtOneCellRun

MovedAtMostHalfCell(hi0, hi, gs, slack) ==
  RatLe(RatAbs(RatSub(hi, hi0)),
        RatAdd(RatMul(RatAbs(gs), RatBin(1, 1)), slack))

\* half a unit in the last place of the double x, at most
HalfUlp(x) == RatMul(RatAbs(x), RatBin(1, 53))

\* the extent of an axis in cells, as computed at lines 129-131
ConfiguredCells(a) ==
  DDiv(DSub(RoundToDouble(microclimate[a \o "f_max"]),
            RoundToDouble(microclimate[a \o "f_min"])),
       RoundToDouble(microclimate.gridSize))

\* an extent exactly halfway between two cell counts went to the even one
HalfwayToEven(exact, n) ==
  RatEq(RatAbs(RatSub(exact, RatOfInt(n))), RatBin(1, 1)) => n % 2 = 0

WrittenMinIsConfigured ==
  \A a \in {"x", "y", "z"} :
    RatEq(FieldValue(grid_info_file.data, a \o "f_min"),
          RoundToDouble(microclimate[a \o "f_min"]))

WrittenMaxMoved(exactly) ==
  \A a \in {"x", "y", "z"} :
    LET written == FieldValue(grid_info_file.data, a \o "f_max")
    IN  MovedAtMostHalfCell(RoundToDouble(microclimate[a \o "f_max"]), written,
                            RoundToDouble(microclimate.gridSize),
                            IF exactly THEN RatOfInt(0) ELSE HalfUlp(written))

HalfwayExtentsToEven ==
  /\ HalfwayToEven(ConfiguredCells("x"), nx)
  /\ HalfwayToEven(ConfiguredCells("y"), ny)
  /\ HalfwayToEven(ConfiguredCells("z"), nz)

\* C30 as stated: in every written grid_info.txt xf_min, yf_min and zf_min
\* are the configured values, each max bound differs from the configured
\* one by at most grid_size/2 in absolute value, and an extent exactly
\* halfway between two cell counts was rounded to the even count.
C30_OnlyMaxBoundMoves ==
  i_pc = "returned" =>
    /\ WrittenMinIsConfigured
    /\ WrittenMaxMoved(TRUE)
    /\ HalfwayExtentsToEven

\* C30, amended: the max bound differs from the configured one by at most
\* grid_size/2 plus half a unit in the last place of the written bound.
C30_OnlyMaxBoundMovesUpToRounding ==
  i_pc = "returned" =>
    /\ WrittenMinIsConfigured
    /\ WrittenMaxMoved(FALSE)
    /\ HalfwayExtentsToEven

\* grid_info.txt written for extents of 11.5, 10.5 and 0.5 cells
C30_Witness ==
  /\ i_pc = "returned"
  /\ RatEq(ConfiguredCells("x"), RatBin(23, 1)) /\ nx = 12
  /\ RatEq(ConfiguredCells("y"), RatBin(21, 1)) /\ ny = 10
  /\ RatEq(ConfiguredCells("z"), RatBin(1, 1)) /\ nz = 0
  /\ RatEq(FieldValue(grid_info_file.data, "xf_max"), RatOfInt(12))
  /\ RatEq(FieldValue(grid_info_file.data, "yf_max"), RatOfInt(10))
  /\ RatEq(FieldValue(grid_info_file.data, "zf_max"), RatOfInt(0))

(***************************************************************************)
(* split_stl_by_facet followed by parse_stl_solid_counts, checked under    *)
(* SpecSplit.                                                              *)
(***************************************************************************)
\* parse_stl_solid_counts on a list of lines, from line k on: the counters
\* it returns, or ok = FALSE where line.split(" ", 1)[1] raises
RECURSIVE CountedFrom(_, _, _)
CountedFrom(ls, k, counts) ==
  IF k > Len(ls) THEN [ok |-> TRUE, counts |-> counts]
  ELSE LET line == Strip(ls[k])
       IN  IF ~StartsWith(line, "solid") THEN CountedFrom(ls, k + 1, counts)
           ELSE IF Len(SplitOnce(line)) < 2
                THEN [ok |-> FALSE, counts |-> counts]
           ELSE CountedFrom(ls, k + 1, Classified(counts, SplitOnce(line)[2]))

SolidCountsOf(ls) == CountedFrom(ls, 1, ZeroCounts)

\* the solid-open line a line of the input lies in: the last one before it
EnclosingSolid(ls, p) ==
  LET before == {k \in 1..(p - 1) : IsSolidOpenLine(ls[k])}
  IN  IF before = {} THEN 0
      ELSE CHOOSE k \in before : \A h \in before : h <= k

\* the type parse_stl_solid_counts counts the solid of line p as (0: none)
TypeOfSolidAt(ls, p) ==
  LET k == EnclosingSolid(ls, p)
  IN  IF k = 0 THEN 0
      ELSE IF Len(SplitOnce(Strip(ls[k]))) < 2 THEN 0
      ELSE FirstMatch(SplitOnce(Strip(ls[k]))[2])

\* the facets of the input that lie in solids of type t
FacetsOfType(ls, t) ==
  Cardinality({p \in DOMAIN ls :
                 IsFacetOpenLine(ls[p]) /\ TypeOfSolidAt(ls, p) = t})

\* every facet-open line is followed by its facet-close line before the
\* next facet-open or solid-open line
FacetsWellFormed ==
  \A p \in DOMAIN lines :
    IsFacetOpenLine(lines[p]) =>
      /\ FacetEnd(p) # 0
      /\ \A q \in (p + 1)..FacetEnd(p) :
           ~IsFacetOpenLine(lines[q]) /\ ~IsSolidOpenLine(lines[q])

SplitCountsAgree ==
  /\ SolidCountsOf(lines).ok = SolidCountsOf(OutLines).ok
  /\ SolidCountsOf(lines).ok =>
       \A t \in 1..Len(SolidTypes) :
         SolidCountsOf(OutLines).counts[t] = FacetsOfType(lines, t)

\* C28: when split_stl_by_facet completes, parse_stl_solid_counts reports on
\* the written output, for every type, as many solids as the input has
\* facets in solids that it counts as that type on the input.
C28_SplitPreservesCounts == s_pc = "done" => SplitCountsAgree

\* the same for inputs whose facets are all closed before the next facet or
\* solid opens
C28_WellFormedSplitPreservesCounts ==
  (s_pc = "done" /\ FacetsWellFormed) => SplitCountsAgree

\* the solid-open lines of ls carry their name after exactly one space, or
\* no name at all
SingleSpaced(ls) ==
  \A k \in DOMAIN ls :
    LET line == Strip(ls[k])
    IN  (StartsWith(line, "solid") /\ Len(Split(line)) >= 2) =>
          /\ Len(SplitOnce(line)) = 2
          /\ SplitOnce(line)[1] = Split(line)[1]
          /\ StartsWith(SplitOnce(line)[2], Split(line)[2])

\* every vertex line of ls before the first nameless solid-open line is one
\* parse_stl can read
VerticesReadable(ls) ==
  \A k \in DOMAIN ls :
    LET fields == Split(Strip(ls[k]))
    IN  (/\ StartsWith(Strip(ls[k]), "vertex")
         /\ CountedFrom(SubSeq(ls, 1, k), 1, ZeroCounts).ok) =>
          /\ Len(fields) = 4
          /\ \A f \in 2..4 : ParseFloat(fields[f]).ok

\* the run of parse_stl that has ended agrees with parse_stl_solid_counts
\* on the same lines: both fail, or both return and with the same counters
ClassifiersAgree ==
  /\ (p_pc = "returned") = SolidCountsOf(p_lines).ok
  /\ p_pc = "returned" => solid_counts = SolidCountsOf(p_lines).counts

\* C29: for every file, parse_stl and parse_stl_solid_counts either both
\* fail or return the same count for every type, however the name is
\* separated from the solid keyword and whatever follows its first token.
C29_ClassifiersAgree ==
  (p_fn = "parse_stl" /\ p_pc \in {"returned", "error"}) => ClassifiersAgree

\* the same for files whose names follow the keyword after one space and
\* whose vertex lines parse_stl can read
C29_SingleSpacedClassifiersAgree ==
  (/\ p_fn = "parse_stl" /\ p_pc \in {"returned", "error"}
   /\ SingleSpaced(p_lines) /\ VerticesReadable(p_lines)) => ClassifiersAgree

\* a run of parse_stl_solid_counts ends as SolidCountsOf says
C29_CountRunIsSolidCountsOf ==
  (p_fn = "parse_stl_solid_counts" /\ p_pc \in {"returned", "error"}) =>
    /\ (p_pc = "returned") = SolidCountsOf(p_lines).ok
    /\ p_pc = "returned" => solid_counts = SolidCountsOf(p_lines).counts

(***************************************************************************)
(* Claims about the parsers                                                *)
(***************************************************************************)
\* what each parser takes as the name on a solid-open line ("" with ok =
\* FALSE when the line carries none)
NameOn(fn, l) ==
  LET fields == IF fn = "parse_stl" THEN Split(Strip(l)) ELSE SplitOnce(Strip(l))
  IN  IF Len(fields) >= 2 THEN [ok |-> TRUE, name |-> fields[2]]
      ELSE [ok |-> FALSE, name |-> ""]

\* the taxonomy keys a name starts with, letter case ignored
KeysOf(name) ==
  {k \in 1..Len(SolidTypes) : StartsWith(Lower(name), Lower(SolidTypes[k]))}

\* the first of a set of keys in the declared order
LeastKey(keys) == CHOOSE k \in keys : \A j \in keys : k <= j

RECURSIVE SumCounts(_, _)
SumCounts(counts, k) ==
  IF k = 0 THEN 0 ELSE counts[k] + SumCounts(counts, k - 1)

SolidOpenLinesRead ==
  Cardinality({k \in 1..p_pos : IsSolidOpenLine(p_lines[k])})

\* a step that reads a solid-open line carrying a name
ReadsNamedSolid ==
  /\ p_pc = "loop" /\ p_pos < Len(p_lines)
  /\ IsSolidOpenLine(p_lines[p_pos + 1])
  /\ NameOn(p_fn, p_lines[p_pos + 1]).ok

ClassifiedFirstKey ==
  LET keys == KeysOf(NameOn(p_fn, p_lines[p_pos + 1]).name)
  IN  /\ p_pc' = "loop" /\ p_pos' = p_pos + 1
      /\ IF keys = {} THEN solid_counts' = solid_counts
         ELSE LET first == LeastKey(keys)
              IN  /\ solid_counts'[first] = solid_counts[first] + 1
                  /\ \A k \in 1..Len(SolidTypes) :
                       k # first => solid_counts'[k] = solid_counts[k]

\* C9: every step that reads a solid-open line with a name adds exactly 1 to
\* the counter of the first key, in the order building, highway, grass,
\* ground, waterway, tree, that the name starts with (letter case ignored)
\* and leaves the other counters alone; a name that starts with no key
\* changes no counter and the scan goes on without an error; no other step
\* changes a counter, so the counters never sum to more than the number of
\* solid-open lines read.
C9_FirstMatchCounted ==
  /\ [][(ReadsNamedSolid => ClassifiedFirstKey)
        /\ (solid_counts' # solid_counts => ReadsNamedSolid)]_vars
  /\ [](p_pc \in {"loop", "returned", "error"} =>
          SumCounts(solid_counts, Len(SolidTypes)) <= SolidOpenLinesRead)

\* parse_stl has returned {building: 1, highway: 1, tree: 1} for the solids
\* building_01, Highway_3 and tree7
C9_Witness ==
  /\ p_pc = "returned" /\ p_fn = "parse_stl"
  /\ solid_counts = <<1, 1, 0, 0, 0, 1>>
  /\ \E k \in DOMAIN p_lines : p_lines[k] = "solid Highway_3\n"

\* the coordinate of axis a on the vertex line l
CoordOn(l, a) == ParseFloat(Split(Strip(l))[a + 1]).val

VertexLinesOf(ls) == {k \in DOMAIN ls : IsVertexLine(ls[k])}

FEq(x, y) ==
  \/ x.kind = "fin" /\ y.kind = "fin" /\ RatEq(x.val, y.val)
  \/ x.kind = "inf" /\ y.kind = "inf" /\ x.val.neg = y.val.neg

FLeq(x, y) == FLt(x, y) \/ FEq(x, y)

\* C10: when parse_stl returns, on every axis min is the smallest and max
\* the largest coordinate over the vertex lines of the file, so min <= max
\* when the file has a vertex line; without one min = +infinity and
\* max = -infinity.
C10_BoxIsExtremes ==
  (p_pc = "returned" /\ p_fn = "parse_stl") =>
    \A a \in 1..3 :
      IF VertexLinesOf(p_lines) = {}
      THEN /\ FEq(min_coords[a], FInf(FALSE))
           /\ FEq(max_coords[a], FInf(TRUE))
      ELSE /\ FLeq(min_coords[a], max_coords[a])
           /\ \E k \in VertexLinesOf(p_lines) :
                FEq(min_coords[a], CoordOn(p_lines[k], a))
           /\ \E k \in VertexLinesOf(p_lines) :
                FEq(max_coords[a], CoordOn(p_lines[k], a))
           /\ \A k \in VertexLinesOf(p_lines) :
                /\ FLeq(min_coords[a], CoordOn(p_lines[k], a))
                /\ FLeq(CoordOn(p_lines[k], a), max_coords[a])

\* the same for the files whose coordinates are all numbers
NoNaNCoordinate ==
  \A k \in VertexLinesOf(p_lines) : \A a \in 1..3 :
    CoordOn(p_lines[k], a).kind # "nan"

C10_BoxIsExtremesOfNumbers ==
  (p_pc = "returned" /\ p_fn = "parse_stl" /\ NoNaNCoordinate) => C10_BoxIsExtremes

\* parse_stl has returned the box of two vertex lines
C10_Witness ==
  /\ p_pc = "returned" /\ p_fn = "parse_stl"
  /\ Cardinality(VertexLinesOf(p_lines)) = 2
  /\ FEq(min_coords[3], FFin(RatOfInt(-1)))
  /\ FEq(max_coords[3], FFin(RatDec(5, 1)))

\* a line whose first field is the vertex keyword but which is not the
\* keyword followed by exactly three numbers
IsMalformedVertexLine(l) ==
  LET fields == Split(Strip(l))
  IN  /\ IsVertexLine(l)
      /\ \/ Len(fields) # 4
         \/ \E k \in 2..4 : ~ParseFloat(fields[k]).ok

\* C11: when parse_stl reads a vertex line that is not the keyword followed
\* by exactly three numbers, the step ends the parse in an error and changes
\* neither the box nor the counts; so parse_stl never reads past such a
\* line and never returns for a file whose lines were all read and that
\* holds one.
C11_MalformedVertexIsFatal ==
  /\ [][(/\ p_pc = "loop" /\ p_fn = "parse_stl" /\ p_pos < Len(p_lines)
         /\ IsMalformedVertexLine(p_lines[p_pos + 1]))
        => (/\ p_pc' = "error"
            /\ p_pos' = p_pos
            /\ min_coords' = min_coords /\ max_coords' = max_coords
            /\ solid_counts' = solid_counts /\ solid_names' = solid_names)]_vars
  /\ [](p_fn = "parse_stl" =>
          /\ \A k \in 1..p_pos : ~IsMalformedVertexLine(p_lines[k])
          /\ (p_pc = "returned" =>
                \A k \in DOMAIN p_lines : ~IsMalformedVertexLine(p_lines[k])))

\* parse_stl stopped in an error at a vertex line with three fields that are
\* not all numbers, after a well-formed vertex line had updated the box
C11_Witness ==
  /\ p_pc = "error" /\ p_fn = "parse_stl"
  /\ p_pos = 1 /\ Len(p_lines) >= 2
  /\ p_lines[2] = "vertex 1 x 2\n"
  /\ min_coords[1].kind = "fin"
====
